---- MODULE Spec2Model ----
(***************************************************************************)
(* A model of me_fs_rs: the top-level image parser (src/src/lib.rs), the   *)
(* FIT decoder (src/src/fit.rs), the CPD / manifest / Gen 2 directory      *)
(* decoders and the MFS Gen 3 volume reconstructor (src/src/mfs.rs).       *)
(*                                                                         *)
(* Byte arrays are modelled as records [len, fill, ov]: a length, a        *)
(* default byte and a finite map of the offsets that differ from it.       *)
(* Every read goes through Rd8 / Rd16 / Rd32, which decode little-endian   *)
(* integers exactly as zerocopy does on the target.  A Rust panic (failed  *)
(* unwrap, slice or map index out of range, checked arithmetic overflow)   *)
(* is the outcome "panic".  usize is taken to be 64 bits wide.  Whether    *)
(* arithmetic overflow is checked depends on the build profile, so it is   *)
(* the nondeterministic input overflow_checks.                             *)
(***************************************************************************)
EXTENDS Integers, Sequences, FiniteSets, TLC

\* ------------------------------------------------------------------ bits

RECURSIVE BitAnd(_, _)
BitAnd(a, b) ==
    IF a = 0 \/ b = 0 THEN 0
    ELSE (IF a % 2 = 1 /\ b % 2 = 1 THEN 1 ELSE 0) + 2 * BitAnd(a \div 2, b \div 2)

RECURSIVE BitXor(_, _)
BitXor(a, b) ==
    IF a = 0 THEN b
    ELSE IF b = 0 THEN a
    ELSE ((a + b) % 2) + 2 * BitXor(a \div 2, b \div 2)


\* ------------------------------------------------------------ byte arrays

Bytes(len, fill) == [len |-> len, fill |-> fill, ov |-> << >>]

\* The array d with the bytes bs written at offset o; bytes that would fall
\* outside the array are dropped (the array keeps its length).
Put(d, o, bs) ==
    LET new == {o + i - 1 : i \in 1..Len(bs)} \cap 0..(d.len - 1)
    IN  [d EXCEPT !.ov = [x \in (DOMAIN d.ov) \cup new |->
                             IF x \in new THEN bs[x - o + 1] ELSE d.ov[x]]]

LE16(v) == << v % 256, (v \div 256) % 256 >>
LE32(v) == << v % 256, (v \div 256) % 256, (v \div 65536) % 256, (v \div 16777216) % 256 >>

Rd8(d, o) == IF o \in DOMAIN d.ov THEN d.ov[o] ELSE d.fill
Rd16(d, o) == Rd8(d, o) + 256 * Rd8(d, o + 1)

\* A u32 is the pair of its 16-bit halves (TLC's integers are 32-bit
\* signed, a u32 is not).  Val is its value, used only where it is known to
\* be below 2^31; Small: below 2^24, which is above every length and offset
\* of the images and partitions modelled here.
W32(lo, hi) == [lo |-> lo, hi |-> hi]
U32_MAX == W32(65535, 65535)
U32_ZERO == W32(0, 0)
Val(w) == w.lo + 65536 * w.hi
Small(w) == w.hi < 256
Rd32(d, o) == W32(Rd16(d, o), Rd16(d, o + 2))
LE32W(w) == LE16(w.lo) \o LE16(w.hi)
\* w - 1 in u32, wrapping
Dec32(w) ==
    IF w.lo > 0 THEN W32(w.lo - 1, w.hi)
    ELSE IF w.hi > 0 THEN W32(65535, w.hi - 1)
    ELSE U32_MAX
\* a + b does not fit a u32
AddOverflows32(a, b) == a.hi + b.hi + ((a.lo + b.lo) \div 65536) >= 65536
\* w * k > limit, for 0 <= limit < 2^24 and 0 < k <= 128
MulExceeds(w, k, limit) == ~Small(w) \/ Val(w) * k > limit
\* w + x > limit, for 0 <= x, limit < 2^24
AddExceeds(w, x, limit) == ~Small(w) \/ Val(w) + x > limit
RdBytes(d, o, n) == [i \in 1..n |-> Rd8(d, o + i - 1)]

\* u32::from_be_bytes of a 4-byte name
BE32(bs) == [lo |-> bs[3] * 256 + bs[4], hi |-> bs[1] * 256 + bs[2]]

\* std::str::from_utf8(..).is_ok()
RECURSIVE IsUtf8(_)
IsUtf8(bs) ==
    LET n == Len(bs)
        Cont(i) == i <= n /\ bs[i] >= 128 /\ bs[i] <= 191
        Rest(k) == IsUtf8(SubSeq(bs, k, n))
    IN  IF n = 0 THEN TRUE
        ELSE LET b == bs[1] IN
             IF b < 128 THEN Rest(2)
             ELSE IF b >= 194 /\ b <= 223 THEN Cont(2) /\ Rest(3)
             ELSE IF b = 224 THEN Cont(2) /\ bs[2] >= 160 /\ Cont(3) /\ Rest(4)
             ELSE IF b = 237 THEN Cont(2) /\ bs[2] <= 159 /\ Cont(3) /\ Rest(4)
             ELSE IF b >= 225 /\ b <= 239 THEN Cont(2) /\ Cont(3) /\ Rest(4)
             ELSE IF b = 240 THEN Cont(2) /\ bs[2] >= 144 /\ Cont(3) /\ Cont(4) /\ Rest(5)
             ELSE IF b = 244 THEN Cont(2) /\ bs[2] <= 143 /\ Cont(3) /\ Cont(4) /\ Rest(5)
             ELSE IF b >= 241 /\ b <= 243 THEN Cont(2) /\ Cont(3) /\ Cont(4) /\ Rest(5)
             ELSE FALSE

\* ASCII magics and names
FPT_MAGIC == << 36, 70, 80, 84 >>
CPD_MAGIC == << 36, 67, 80, 68 >>
MANIFEST2_MAGIC == << 36, 77, 78, 50 >>
\* The 4-byte names of FPT entries; BAD is a name that is not UTF-8
NAME ==
    [FTUP |-> << 70, 84, 85, 80 >>, DLMP |-> << 68, 76, 77, 80 >>,
     FTPR |-> << 70, 84, 80, 82 >>, NFTP |-> << 78, 70, 84, 80 >>,
     MDMV |-> << 77, 68, 77, 86 >>, MFS |-> << 77, 70, 83, 0 >>,
     AFSP |-> << 65, 70, 83, 80 >>, EFFS |-> << 69, 70, 70, 83 >>,
     PSVN |-> << 80, 83, 86, 78 >>, BAD |-> << 255, 254, 0, 0 >>]
FTUP == BE32(NAME.FTUP)
DLMP == BE32(NAME.DLMP)
FTPR == BE32(NAME.FTPR)
NFTP == BE32(NAME.NFTP)
MDMV == BE32(NAME.MDMV)
MFS == BE32(NAME.MFS)
AFSP == BE32(NAME.AFSP)
SIG_LUT == W32(19532 + 0, 21589)
SIG_LZMA == W32(54, 64)
PARSE_MFS == FALSE

\* The name Display::fmt of FPTEntry hands to get_part_info: the name without
\* its trailing NULs, or "[ff, fe, 00, 00]" for a name that is not UTF-8
RECURSIVE DisplayName(_)
DisplayName(name) ==
    LET c(v) == IF v < 10 THEN 48 + v ELSE 87 + v
        Hex2(b) == << c(b \div 16), c(b % 16) >>    \* "{:02x}" of one byte
    IN
    IF ~IsUtf8(name)
    THEN << 91 >> \o Hex2(name[1]) \o << 44, 32 >> \o Hex2(name[2]) \o << 44, 32 >>
            \o Hex2(name[3]) \o << 44, 32 >> \o Hex2(name[4]) \o << 93 >>
    ELSE IF Len(name) > 0 /\ name[Len(name)] = 0
         THEN DisplayName(SubSeq(name, 1, Len(name) - 1))
    ELSE name

\* get_part_info(n): the PartitionType of the pair returned; n is the
\* string as its bytes
get_part_info(n) ==
    CASE n = << 70, 84, 80, 82 >> -> "Code"        \* "FTPR"
      [] n = << 70, 84, 85, 80 >> -> "Code"        \* "FTUP"
      [] n = << 68, 76, 77, 80 >> -> "Code"        \* "DLMP"
      [] n = << 80, 83, 86, 78 >> -> "Data"        \* "PSVN"
      [] n = << 73, 86, 66, 80 >> -> "Data"        \* "IVBP"
      [] n = << 77, 70, 83 >> -> "Data"            \* "MFS"
      [] n = << 78, 70, 84, 80 >> -> "Code"        \* "NFTP"
      [] n = << 82, 79, 77, 66 >> -> "Code"        \* "ROMB"
      [] n = << 87, 67, 79, 68 >> -> "Code"        \* "WCOD"
      [] n = << 76, 79, 67, 76 >> -> "Code"        \* "LOCL"
      [] n = << 70, 76, 79, 71 >> -> "Data"        \* "FLOG"
      [] n = << 85, 84, 79, 75 >> -> "Data"        \* "UTOK"
      [] n = << 73, 83, 72, 67 >> -> "Code"        \* "ISHC"
      [] n = << 65, 70, 83, 80 >> -> "None"        \* "AFSP"
      [] n = << 70, 84, 80, 77 >> -> "Code"        \* "FTPM"
      [] n = << 71, 76, 85, 84 >> -> "Data"        \* "GLUT"
      [] n = << 69, 70, 70, 83 >> -> "Data"        \* "EFFS"
      [] n = << 70, 79, 86, 68 >> -> "Data"        \* "FOVD"
      [] OTHER -> "None"

PANIC == [kind |-> "panic"]

\* ------------------------------------------------------------------- FIT

MAP_8M == 8388607
MAP_16M == 16777215
SIZE_8M == 8388608
SIZE_16M == 16777216
FIT_HEADER_SIZE == 16
FIT_ENTRY_SIZE == 16
FITP_OFFSET == 64

get_mapping(size) ==
    IF size = SIZE_8M THEN MAP_8M
    ELSE IF size = SIZE_16M THEN MAP_16M
    ELSE MAP_16M

\* Fit::new(data).  oc: the build checks arithmetic overflow.
\* len - 0x40 with len < 0x40 panics in a checked build; unchecked it wraps
\* and the slice data[fitp_pos..fitp_pos + 4] is out of range: a panic too.
Fit_new(d, oc) ==
    IF d.len < FITP_OFFSET THEN PANIC
    ELSE
    LET fitp_pos == d.len - FITP_OFFSET
        mapping == get_mapping(d.len)
        fp == Rd32(d, fitp_pos)
        offset == BitAnd(mapping, fp.lo + 65536 * (fp.hi % 256))
    IN  IF fp = U32_MAX THEN [kind |-> "err", why |-> "Not a FIT"]
        ELSE IF offset % 16 # 0 THEN [kind |-> "err", why |-> "Not a FIT pointer"]
        ELSE IF offset > d.len THEN PANIC
        ELSE IF d.len - offset < FIT_HEADER_SIZE THEN [kind |-> "err", why |-> "No FIT header"]
        ELSE
        LET entries == Rd32(d, offset + 8)
            count == Dec32(entries)
            pos == offset + FIT_HEADER_SIZE
        IN  IF entries = U32_ZERO /\ oc THEN PANIC
            ELSE IF MulExceeds(count, FIT_ENTRY_SIZE, d.len - pos)
                 THEN [kind |-> "err", why |-> "cannot parse FIT entries"]
            ELSE [kind |-> "ok", offset |-> offset, mapping |-> mapping,
                  magic |-> RdBytes(d, offset, 8), count |-> count]

\* EntryType::try_from(v)
EntryType_try_from(v) ==
    LET Ok(t) == [ok |-> TRUE, t |-> t]
        Err(e) == [ok |-> FALSE, err |-> e]
    IN  CASE v = 0 -> Ok("Header")
          [] v = 1 -> Ok("MicrocodeUpdate")
          [] v = 2 -> Ok("StartupACM")
          [] v = 3 -> Ok("DiagnosticACM")
          [] v \in 4..6 -> Err("Intel Reserved")
          [] v = 7 -> Ok("BIOSStartupModule")
          [] v = 8 -> Ok("TPMPolicyRecord")
          [] v = 9 -> Ok("BIOSPolicyRecord")
          [] v = 10 -> Ok("TXTPolicyRecord")
          [] v = 11 -> Ok("KeyManifestRecord")
          [] v = 12 -> Ok("BootPolicyManifest")
          [] v \in 13..15 -> Err("Intel Reserved")
          [] v = 16 -> Ok("CSESecureBoot")
          [] v \in 17..44 -> Err("Intel Reserved")
          [] v = 45 -> Ok("FeaturePolicyDeliveryRecord")
          [] v = 46 -> Err("Intel Reserved")
          [] v = 47 -> Ok("JMPDebugPolicy")
          [] v \in 48..112 -> Err("Reserved for Platform Manufacturer Use")
          [] v \in 113..126 -> Err("Intel Reserved")
          [] v = 127 -> Err("Unused Entry")
          [] OTHER -> Err("unknown FIT entry type")

\* FitEntry::get_type of an entry whose checksum_valid_and_type is b
get_type(b) == EntryType_try_from(BitAnd(b, 239))

\* FitEntry::is_checksum_valid
is_checksum_valid(b) == BitAnd(b, 128) > 0

\* ------------------------------------------------------------------- CPD

CPD_HEADER_SIZE == 16
CPD_ENTRY_SIZE == 24
CPD_EXT_VERSION == W32(258, 20)

\* CodePartitionDirectory::new(&data[o..end], o), then the caller's unwrap().
\* The slice handed in is [o, end) with end <= d.len checked by the caller.
CPD_new(d, o, end) ==
    LET size == end - o IN
    IF size < CPD_HEADER_SIZE THEN PANIC
    ELSE
    LET n == Rd32(d, o + 4)
        voc == Rd32(d, o + 8)
        header_size == IF voc = CPD_EXT_VERSION THEN CPD_HEADER_SIZE + 4 ELSE CPD_HEADER_SIZE
    IN  IF n # U32_ZERO /\ MulExceeds(n, CPD_ENTRY_SIZE, size - header_size) THEN PANIC
        ELSE [kind |-> "ok", offset |-> o, name |-> RdBytes(d, o + 12, 4), entries |-> n]

\* -------------------------------------------------------------- manifest

MAN_HEADER_SIZE == 128
KEY_SIZE == 256
MANIFEST_SIZE == 644
MAN_MAGIC_OFFSET == 28
MAN_ENTRIES_OFFSET == 32

\* man::Manifest::new(&data[o..]); the caller has o <= d.len.
Manifest_new(d, o) ==
    LET size == d.len - o IN
    IF size < MAN_HEADER_SIZE THEN PANIC
    ELSE IF RdBytes(d, o + MAN_MAGIC_OFFSET, 4) # MANIFEST2_MAGIC
         THEN [kind |-> "err", why |-> "manifest magic not found"]
    ELSE IF size < MAN_HEADER_SIZE + KEY_SIZE + 4 + KEY_SIZE THEN PANIC
    ELSE [kind |-> "ok", entries |-> Rd32(d, o + MAN_ENTRIES_OFFSET)]

\* ------------------------------------------------------- Gen 2 directory

GEN2_HEADER_SIZE == 16
GEN2_ENTRY_SIZE == 96
GEN2_ENTRY_OFFSET == 56
GEN2_ENTRY_MOD_BASE == 52
GEN2_ENTRY_CODE_SIZE == 60
GEN2_ENTRY_MEMORY_SIZE == 68
GEN2_ENTRY_FLAGS == 80

\* gen2::Directory::new(&data[o..], count)
Directory_new(d, o, count) ==
    LET size == d.len - o IN
    IF size < GEN2_HEADER_SIZE THEN [kind |-> "err", why |-> "cannot parse ME FW Gen 2 directory header"]
    ELSE IF MulExceeds(count, GEN2_ENTRY_SIZE, size - GEN2_HEADER_SIZE)
         THEN [kind |-> "err", why |-> "cannot parse ME FW Gen 2 directory entries"]
    ELSE [kind |-> "ok", first |-> o + GEN2_HEADER_SIZE, entries |-> count]

\* Entry::bin_map: three u32 additions
bin_map_overflows(d, e) ==
    LET b == Rd32(d, e + GEN2_ENTRY_MOD_BASE)
        f == Rd32(d, e + GEN2_ENTRY_FLAGS)
        rapi == (f.hi \div 2) % 8
        kapi == (f.hi \div 16) % 4
    IN  \/ AddOverflows32(b, W32((rapi + kapi) * 4096, 0))
        \/ AddOverflows32(b, Rd32(d, e + GEN2_ENTRY_CODE_SIZE))
        \/ AddOverflows32(b, Rd32(d, e + GEN2_ENTRY_MEMORY_SIZE))

\* The loop over a Gen 2 directory's entries in parse(): TRUE iff it panics.
\* o: the partition's offset; first: offset of the first $MME entry;
\* withMap: the DLMP/FTPR/NFTP arm also calls bin_map().
RECURSIVE Gen2EntriesPanic(_, _, _, _, _, _)
Gen2EntriesPanic(d, o, first, n, withMap, oc) ==
    IF n = 0 THEN FALSE
    ELSE LET off == Rd32(d, first + GEN2_ENTRY_OFFSET) IN
         IF AddExceeds(off, o + 4, d.len) THEN TRUE
         ELSE LET pos == o + Val(off)
                  sig == Rd32(d, pos) IN
              IF sig # SIG_LUT /\ sig # SIG_LZMA /\ d.len - pos < 48 THEN TRUE
              ELSE IF withMap /\ oc /\ bin_map_overflows(d, first) THEN TRUE
              ELSE Gen2EntriesPanic(d, o, first + GEN2_ENTRY_SIZE, n - 1, withMap, oc)

\* The arm "if let Ok(m) = man::Manifest::new(&data[o..]) { ... }" shared by
\* the DLMP/FTPR/NFTP and MDMV arms: the outcome and the Gen 2 directory
\* decoded (printed) by it, if any.
Gen2Arm(d, o, withMap, oc) ==
    IF o > d.len THEN PANIC
    ELSE LET m == Manifest_new(d, o) IN
         IF m.kind = "panic" THEN PANIC
         ELSE IF m.kind = "err" THEN [kind |-> "none"]
         ELSE LET dir == Directory_new(d, o + MANIFEST_SIZE, m.entries) IN
              IF dir.kind = "err" THEN [kind |-> "none"]
              ELSE IF Gen2EntriesPanic(d, o, dir.first, Val(dir.entries), withMap, oc) THEN PANIC
              ELSE [kind |-> "gen2", offset |-> o, entries |-> dir.entries]

\* ------------------------------------------------------- MFS: constants

GEN3_PAGE_MAGIC == W32(30855, 43605)
GEN3_PAGE_SIZE == 8192
SLOTS_OFFSET == 18
CHUNK_DATA_SIZE == 64
CHUNK_SIZE == CHUNK_DATA_SIZE + 2
SYS_PAGE_CHUNKS == 120
SYS_PAGE_SLOTS == SYS_PAGE_CHUNKS + 1
DATA_PAGE_CHUNKS == 122
DATA_PAGE_SLOTS == DATA_PAGE_CHUNKS
SYS_CHUNKS_OFFSET == SLOTS_OFFSET + 2 * SYS_PAGE_SLOTS
DATA_CHUNKS_OFFSET == SLOTS_OFFSET + DATA_PAGE_SLOTS
SLOT_UNUSED == 65535
SLOT_LAST == 32767
VOL_MAGIC == W32(25089, 29263)
VOL_HEADER_SIZE == 14
VOL_FILES_OFFSET == 12
PAGE_USN_OFFSET == 4
PAGE_FIRST_CHUNK_OFFSET == 14
FILE_NONE == 0
FILE_EMPTY == 65535
SEC_SIZE == 32 + 4 + 16
DIR_ENTRY_SIZE == 24
VFS_DIRECTORY == 16384
FILE_INDEX_MASK == 4095
ROOT_DIR_INDEX == 8
\* The file_index parse_gen3 walks from, 0x10000008
ROOT_DIR == W32(ROOT_DIR_INDEX, 4096)

\* ------------------------------------------------------------ MFS: CRCs

\* One round of the table construction: r = (r << 1) ^ poly

\* crc_table(): the CCITT table, each entry cut to 16 bits at the end
crc_table ==
    LET TableRound(r) == BitXor(r * 2, IF (r \div 32768) % 2 = 1 THEN 4129 ELSE 0) IN
    [i \in 0..255 |->
        TableRound(TableRound(TableRound(TableRound(
        TableRound(TableRound(TableRound(TableRound(i * 256)))))))) % 65536]

\* CCITT.checksum: CRC-16/IBM-3740 (poly 0x1021, init 0xffff, not reflected,
\* no final xor) over a byte sequence
CcittByte(crc, b) == BitXor((crc * 256) % 65536, crc_table[BitXor(crc \div 256, b)])

\* The bytes lo..hi of bs folded into crc, in order.  The range is split in
\* halves and the left half is evaluated first (the test on left), which
\* keeps the evaluation shallow.
RECURSIVE CcittFrom(_, _, _, _)
CcittFrom(crc, bs, lo, hi) ==
    IF lo > hi THEN crc
    ELSE IF lo = hi THEN CcittByte(crc, bs[lo])
    ELSE LET mid == (lo + hi) \div 2
             left == CcittFrom(crc, bs, lo, mid)
         IN  IF left < 0 THEN left ELSE CcittFrom(left, bs, mid + 1, hi)
CCITT(bs) == CcittFrom(65535, bs, 1, Len(bs))

\* One byte of crc_idx: crc = (tab[(b ^ (crc >> 8)) as u8] ^ (crc << 8)) & 0x3fff
CrcIdxByte(crc, b) ==
    BitXor(crc_table[BitXor(b, crc \div 256) % 256], (crc * 256) % 65536) % 16384

\* crc_idx collapsed into the payload checksum routine
crc_idx_Collapsed(v) == CCITT(LE16(v))

\* crc_idx(v): init 0x3fff, the two bytes of v, low byte first
crc_idx(v) == CrcIdxByte(CrcIdxByte(16383, v % 256), v \div 256)

\* The checksum parse_sys_chunks expects of a chunk: over the payload
\* followed by the little-endian bytes of the derived index
ChunkChecksum(payload, chunk_index) == CCITT(payload \o LE16(chunk_index))

\* ----------------------------------------------------- MFS: page chunks

\* Chunk::read_from_prefix on the 66 bytes at coff
ReadChunk(d, coff) ==
    [data |-> RdBytes(d, coff, CHUNK_DATA_SIZE), crc16 |-> Rd16(d, coff + CHUNK_DATA_SIZE)]

\* An insert that keeps the value a key already has
MapPut_KeepFirst(m, k, v) == [x \in (DOMAIN m) \cup {k} |-> IF x \in DOMAIN m THEN m[x] ELSE v]

MapPut(m, k, v) == [x \in (DOMAIN m) \cup {k} |-> IF x = k THEN v ELSE m[x]]

\* parse_data_chunks(slice, first_chunk) on the page at p: every slot byte
\* other than 0xff is a used chunk, stored under first_chunk + chunk_pos, a
\* u16 addition.  The positions of a page give distinct keys.
parse_data_chunks(d, p, first_chunk, oc) ==
    LET used == {cp \in 0..(DATA_PAGE_SLOTS - 1) : Rd8(d, p + SLOTS_OFFSET + cp) # 255}
    IN  IF oc /\ \E cp \in used : first_chunk + cp >= 65536 THEN PANIC
        ELSE [kind |-> "ok",
              chunks |-> [k \in {(first_chunk + cp) % 65536 : cp \in used} |->
                  ReadChunk(d, p + DATA_CHUNKS_OFFSET
                               + ((k + 65536 - first_chunk) % 65536) * CHUNK_SIZE)]]

\* The slot of a system page at chunk_pos
SysSlot(d, p, chunk_pos) == Rd16(d, p + SLOTS_OFFSET + 2 * chunk_pos)

\* parse_sys_chunks without the test of the checksum
RECURSIVE SysChunksFrom_Unchecked(_, _, _, _, _)
SysChunksFrom_Unchecked(d, p, chunk_pos, chunk_index, chunks) ==
    LET rest == {cp \in chunk_pos..(SYS_PAGE_SLOTS - 1) : SysSlot(d, p, cp) # SLOT_UNUSED}
    IN  IF rest = {} THEN [kind |-> "ok", chunks |-> chunks]
        ELSE LET cp == CHOOSE x \in rest : \A y \in rest : x <= y
                 slot == SysSlot(d, p, cp)
                 coff == SYS_CHUNKS_OFFSET + cp * CHUNK_SIZE
                 idx == BitXor(crc_idx(chunk_index), slot)
             IN  IF slot = SLOT_LAST THEN [kind |-> "ok", chunks |-> chunks]
                 ELSE IF coff + CHUNK_SIZE > GEN3_PAGE_SIZE THEN PANIC
                 ELSE SysChunksFrom_Unchecked(d, p, cp + 1, idx,
                                              MapPut(chunks, idx, ReadChunk(d, p + coff)))

\* parse_sys_chunks(slice) on the page at p: the loop from chunk_pos on,
\* with the running derived index.  Unused slots are passed over at once;
\* the chunk of a used slot is read from the page slice, so it must end
\* inside the page.
RECURSIVE SysChunksFrom(_, _, _, _, _)
SysChunksFrom(d, p, chunk_pos, chunk_index, chunks) ==
    LET rest == {cp \in chunk_pos..(SYS_PAGE_SLOTS - 1) : SysSlot(d, p, cp) # SLOT_UNUSED}
    IN  IF rest = {} THEN [kind |-> "ok", chunks |-> chunks]
        ELSE LET cp == CHOOSE x \in rest : \A y \in rest : x <= y
                 slot == SysSlot(d, p, cp)
                 coff == SYS_CHUNKS_OFFSET + cp * CHUNK_SIZE
             IN  IF slot = SLOT_LAST THEN [kind |-> "ok", chunks |-> chunks]
                 ELSE IF coff + CHUNK_SIZE > GEN3_PAGE_SIZE THEN PANIC
                 ELSE LET c == ReadChunk(d, p + coff)
                          idx == BitXor(crc_idx(chunk_index), slot)
                      IN  IF ChunkChecksum(c.data, idx) # c.crc16
                          THEN [kind |-> "err", why |-> "ChunkChecksumFailed"]
                          ELSE SysChunksFrom(d, p, cp + 1, idx, MapPut(chunks, idx, c))

parse_sys_chunks(d, p) == SysChunksFrom(d, p, 0, 0, << >>)

\* -------------------------------------------------- MFS: files and blobs

\* A Vec<u16> / &[u16] is an array record like the byte arrays; At reads it.
At(a, i) == Rd8(a, i)

is_inode_active(inode) == inode # FILE_NONE /\ inode # FILE_EMPTY

\* The inode head of file_index, FILE_NONE taken for FILE_EMPTY
GetFileHead_NoneIsEmpty(fat, file_index) ==
    IF file_index >= fat.len THEN PANIC
    ELSE LET i_node == At(fat, file_index) IN
         IF i_node = FILE_EMPTY \/ i_node = FILE_NONE
         THEN [kind |-> "err", why |-> "EmptyFile"]
         ELSE [kind |-> "loop", i_node |-> i_node]

\* get_file, lines 272-281: the inode head of file_index
GetFileHead(fat, file_index) ==
    IF file_index >= fat.len THEN PANIC
    ELSE LET i_node == At(fat, file_index) IN
         IF i_node = FILE_EMPTY THEN [kind |-> "err", why |-> "EmptyFile"]
         ELSE IF i_node = FILE_NONE THEN [kind |-> "err", why |-> "NoFile"]
         ELSE [kind |-> "loop", i_node |-> i_node]

\* One iteration of get_file that appends the whole last chunk
GetFileIter_WholeTail(cs, n_sys, fat, n_files, i_node, fdata, oc) ==
    IF i_node < n_files THEN [kind |-> "err", why |-> "InodeOutOfRange"]
    ELSE LET ci == (i_node + n_sys + 65536 - n_files) % 65536
             next == At(fat, i_node)
         IN  IF ci \notin DOMAIN cs \/ i_node >= fat.len THEN PANIC
             ELSE IF next > 0 /\ next <= CHUNK_SIZE
                  THEN [kind |-> "ok", data |-> fdata \o cs[ci].data]
                  ELSE [kind |-> "more", i_node |-> next, data |-> fdata \o cs[ci].data]

\* get_file, lines 285-296: one iteration of the loop.  The chunk index is
\* computed in u16; the chunk must be in the map and i_node inside the FAT;
\* a tail length above the 64 payload bytes is a slice out of range.
GetFileIter(cs, n_sys, fat, n_files, i_node, fdata, oc) ==
    IF i_node < n_files THEN [kind |-> "err", why |-> "InodeOutOfRange"]
    ELSE IF i_node + n_sys >= 65536 /\ oc THEN PANIC
    ELSE LET ci == (i_node + n_sys + 65536 - n_files) % 65536 IN
         IF ci \notin DOMAIN cs THEN PANIC
         ELSE IF i_node >= fat.len THEN PANIC
         ELSE LET next == At(fat, i_node) IN
              IF next > 0 /\ next <= CHUNK_SIZE
              THEN IF next > CHUNK_DATA_SIZE THEN PANIC
                   ELSE [kind |-> "ok", data |-> fdata \o SubSeq(cs[ci].data, 1, next)]
              ELSE [kind |-> "more", i_node |-> next, data |-> fdata \o cs[ci].data]

Zeros(n) == [i \in 1..n |-> 0]

\* check_dir_sec with the comparison of bits 3..9 with OLD_FLAGS >> 3 that
\* the source leaves commented out
check_dir_sec_U7(flags, nonce) ==
    LET ar == flags.lo % 4
        enc == (flags.lo \div 4) % 2
        u12 == flags.hi \div 16
    IN  IF (flags.lo \div 8) % 128 # 18 THEN [kind |-> "err", why |-> "BadDirectoryFlags"]
        ELSE IF u12 # enc * 2 THEN [kind |-> "err", why |-> "BadDirectoryFlags"]
        ELSE IF ar = 0 /\ enc = 0 /\ nonce # Zeros(16)
             THEN [kind |-> "err", why |-> "BadNonce"]
        ELSE [kind |-> "ok"]

\* check_dir_sec(sec): flags is the u32 at 32, nonce the 16 bytes at 36
check_dir_sec(flags, nonce) ==
    LET ar == flags.lo % 4
        enc == (flags.lo \div 4) % 2
        u12 == flags.hi \div 16
    IN  IF u12 # enc * 2 THEN [kind |-> "err", why |-> "BadDirectoryFlags"]
        ELSE IF ar = 0 /\ enc = 0 /\ nonce # Zeros(16)
             THEN [kind |-> "err", why |-> "BadNonce"]
        ELSE [kind |-> "ok"]

\* DirEntry::read_from_prefix on 24 bytes of a file
ReadDirEntry(fdata, o) ==
    [file_no |-> W32(fdata[o + 1] + 256 * fdata[o + 2], fdata[o + 3] + 256 * fdata[o + 4]),
     mode |-> fdata[o + 5] + 256 * fdata[o + 6],
     name |-> SubSeq(fdata, o + 13, o + 24)]

is_dir(e) == BitAnd(e.mode, VFS_DIRECTORY) > 0

\* get_blob without the test of the leftover bytes
BlobParse_AnySize(fdata, oc) ==
    IF Len(fdata) < SEC_SIZE THEN PANIC
    ELSE LET list_size == Len(fdata) - SEC_SIZE
             sec == check_dir_sec(
                        W32(fdata[list_size + 33] + 256 * fdata[list_size + 34],
                            fdata[list_size + 35] + 256 * fdata[list_size + 36]),
                        SubSeq(fdata, list_size + 37, list_size + 52))
         IN  IF sec.kind = "err" THEN sec
             ELSE [kind |-> "ok",
                   files |-> [k \in 1..(list_size \div DIR_ENTRY_SIZE) |->
                                 ReadDirEntry(fdata, (k - 1) * DIR_ENTRY_SIZE)]]

\* get_blob, lines 434-455, on the file read: the size check, the security
\* section, the entries.  size - SEC_SIZE is a usize subtraction: below 52
\* bytes it panics in a checked build and wraps to 2^64 - (52 - size)
\* otherwise (2^64 % 24 = 16).
BlobParse(fdata, oc) ==
    LET size == Len(fdata) IN
    IF size < SEC_SIZE THEN
        IF oc THEN PANIC
        ELSE IF (16 + 24 * 3 - (SEC_SIZE - size)) % DIR_ENTRY_SIZE # 0
             THEN IF size < 24 THEN PANIC
                  ELSE [kind |-> "err", why |-> "MalformedDirectory"]
             ELSE PANIC
    ELSE
    LET list_size == size - SEC_SIZE IN
        IF list_size % DIR_ENTRY_SIZE # 0 THEN [kind |-> "err", why |-> "MalformedDirectory"]
        ELSE LET sec == check_dir_sec(
                            W32(fdata[list_size + 33] + 256 * fdata[list_size + 34],
                                fdata[list_size + 35] + 256 * fdata[list_size + 36]),
                            SubSeq(fdata, list_size + 37, list_size + 52))
             IN  IF sec.kind = "err" THEN sec
                 ELSE [kind |-> "ok",
                       files |-> [k \in 1..(list_size \div DIR_ENTRY_SIZE) |->
                                     ReadDirEntry(fdata, (k - 1) * DIR_ENTRY_SIZE)]]

\* get_blob, lines 489-495: the entry is "." or ".." judged by the first two
\* bytes of its name, cut at the first NUL
IsDotEntry(e) ==
    /\ IsUtf8(SubSeq(e.name, 1, 2))
    /\ e.name[1] = 46
    /\ e.name[2] \in {0, 46}

\* mfs::parse: the Gen 2 heuristic, m & 0xfff0_7800 == 0xfff0_7800
IsGen2Magic(m) == BitAnd(m.hi, 65520) = 65520 /\ BitAnd(m.lo, 30720) = 30720

\* sort_by_key (a stable sort) as an insertion sort of [key, val] pairs; the
\* keys are u32 values (a u16 key has hi = 0)
RECURSIVE InsertSorted(_, _)
InsertSorted(sorted, x) ==
    LET KeyLt(a, b) == a.hi < b.hi \/ (a.hi = b.hi /\ a.lo < b.lo) IN
    IF sorted = << >> THEN << x >>
    ELSE IF KeyLt(x.key, sorted[Len(sorted)].key)
         THEN Append(InsertSorted(SubSeq(sorted, 1, Len(sorted) - 1), x), sorted[Len(sorted)])
         ELSE Append(sorted, x)

RECURSIVE SortPairs(_)
SortPairs(sq) ==
    IF sq = << >> THEN << >>
    ELSE InsertSorted(SortPairs(SubSeq(sq, 1, Len(sq) - 1)), sq[Len(sq)])

\* No sort: the pages in their physical order
SortByUsn_Physical(pages) == pages

SortByUsn(pages) ==
    LET s == SortPairs([i \in DOMAIN pages |-> [key |-> pages[i].usn, val |-> pages[i]]])
    IN  [i \in DOMAIN s |-> s[i].val]

SortByFirstChunk(pages) ==
    LET s == SortPairs([i \in DOMAIN pages |->
                           [key |-> W32(pages[i].first_chunk, 0), val |-> pages[i]]])
    IN  [i \in DOMAIN s |-> s[i].val]

\* parse_gen3, lines 609-619: the system pages' chunks, in USN order
RECURSIVE MergeSys(_, _, _, _)
MergeSys(pages, i, n_sys, acc) ==
    IF i > Len(pages) THEN [kind |-> "ok", chunks |-> acc]
    ELSE IF \E k \in DOMAIN pages[i].chunks : k >= n_sys
         THEN [kind |-> "err", why |-> "SystemChunkOutOfRange"]
    ELSE MergeSys(pages, i + 1, n_sys,
                  [k \in (DOMAIN acc) \cup (DOMAIN pages[i].chunks) |->
                      IF k \in DOMAIN pages[i].chunks THEN pages[i].chunks[k] ELSE acc[k]])

\* MergeData without the test of first_chunk
RECURSIVE MergeData_Unordered(_, _, _, _)
MergeData_Unordered(pages, pi, n_sys, acc) ==
    IF pi > Len(pages) THEN [kind |-> "ok", chunks |-> acc]
    ELSE IF (DOMAIN pages[pi].chunks) \cap (DOMAIN acc) # {}
         THEN [kind |-> "err", why |-> "DuplicateDataChunk"]
    ELSE MergeData_Unordered(pages, pi + 1, n_sys,
                   [k \in (DOMAIN acc) \cup (DOMAIN pages[pi].chunks) |->
                       IF k \in DOMAIN acc THEN acc[k] ELSE pages[pi].chunks[k]])

\* parse_gen3, lines 620-637: the data pages' chunks, in first_chunk order
RECURSIVE MergeData(_, _, _, _)
MergeData(pages, pi, n_sys, acc) ==
    IF pi > Len(pages) THEN [kind |-> "ok", chunks |-> acc]
    ELSE IF pages[pi].first_chunk # n_sys + (pi - 1) * DATA_PAGE_CHUNKS
         THEN [kind |-> "err", why |-> "DataPageOrderingViolation"]
    ELSE IF (DOMAIN pages[pi].chunks) \cap (DOMAIN acc) # {}
         THEN [kind |-> "err", why |-> "DuplicateDataChunk"]
    ELSE MergeData(pages, pi + 1, n_sys,
                   [k \in (DOMAIN acc) \cup (DOMAIN pages[pi].chunks) |->
                       IF k \in DOMAIN acc THEN acc[k] ELSE pages[pi].chunks[k]])

\* parse_gen3, lines 651-662: the system area, zero-filled, with the payload
\* of every present chunk below n_sys at index * 64
SysData(cs, n_sys) ==
    LET present == {i \in DOMAIN cs : i < n_sys}
    IN  [len |-> n_sys * CHUNK_DATA_SIZE, fill |-> 0,
         ov |-> [x \in {i * CHUNK_DATA_SIZE + j : i \in present, j \in 0..(CHUNK_DATA_SIZE - 1)} |->
                    cs[x \div CHUNK_DATA_SIZE].data[(x % CHUNK_DATA_SIZE) + 1]]]

\* A FAT read from the start of the system area, the volume header included
ReadFat_FromStart(sys_data, total) ==
    [len |-> total, fill |-> 0,
     ov |-> [i \in {j \in 0..(total - 1) : Rd16(sys_data, 2 * j) # 0} |->
                Rd16(sys_data, 2 * i)]]

\* parse_gen3, lines 666-672: the FAT, total u16 entries from byte 14 on
ReadFat(sys_data, total) ==
    [len |-> total, fill |-> 0,
     ov |-> [i \in {j \in 0..(total - 1) : Rd16(sys_data, VOL_HEADER_SIZE + 2 * j) # 0} |->
                Rd16(sys_data, VOL_HEADER_SIZE + 2 * i)]]

\* ------------------------------------------------------------------- FPT

FPT_SIZE == 32
FPT_ENTRY_SIZE == 32
FPT_REALIGN == 4096

\* fpt::FPTEntry::read_from_prefix(&data[pos..]): name, offset, size
ReadEntry(d, pos) ==
    [name |-> RdBytes(d, pos, 4), offset |-> Rd32(d, pos + 8), size |-> Rd32(d, pos + 12)]

\* The loop "for e in 0..fpt.entries" of parse(): the entries read from
\* directly after the 32-byte header at o, or a panic when one of them does
\* not lie inside the image (&data[pos..] or the unwrap()).
ReadEntries(d, o) ==
    LET n == Rd32(d, o + 4) IN
    IF n # U32_ZERO /\ MulExceeds(n, FPT_ENTRY_SIZE, d.len - o - FPT_SIZE) THEN PANIC
    ELSE [kind |-> "ok",
          entries |-> [e \in 1..Val(n) |->
                          ReadEntry(d, o + FPT_SIZE + (e - 1) * FPT_ENTRY_SIZE)]]

\* A realign that happens on the page-aligned candidates instead
RealignBase_Swapped(b) == IF b % FPT_REALIGN = 0 THEN b + 16 ELSE b

\* "realign base": the partition base for an FPT matched at candidate b
RealignBase(b) == IF b % FPT_REALIGN # 0 THEN b + 16 ELSE b

\* The data offset of an entry: base + (e.offset & 0x003f_ffff); the mask
\* keeps the low half and the low 6 bits (0x3f) of the high half
EntryOffset(b, e) == b + e.offset.lo + 65536 * BitAnd(e.offset.hi, 63)

\* The first loop of parse(): every 16-byte aligned o with "$CPD" is decoded
\* and unwrapped.  Yields the directories found, or a panic.
RECURSIVE ScanCpdsFrom(_, _, _)
ScanCpdsFrom(d, o, acc) ==
    IF o + 16 + FPT_SIZE > d.len THEN [kind |-> "ok", dirs |-> acc]
    ELSE LET o2 == o + 16 IN
         IF RdBytes(d, o2, 4) = CPD_MAGIC
         THEN LET c == CPD_new(d, o2, d.len) IN
              IF c.kind = "panic" THEN PANIC
              ELSE ScanCpdsFrom(d, o2, Append(acc, c))
         ELSE ScanCpdsFrom(d, o2, acc)

\* One iteration of "for e in &entries": the match on the entry's name.
\* Yields a panic, or the arm taken with the CPD pushed / Gen 2 directory
\* decoded by it.
DispatchEntry(d, b, e, oc) ==
    LET n == BE32(e.name)
        o == EntryOffset(b, e)
        s == e.size
        Done(arm, cpds, g2) == [kind |-> "ok", arm |-> arm, o |-> o, cpds |-> cpds, gen2 |-> g2]
        FromArm(arm, r) ==
            IF r.kind = "panic" THEN PANIC
            ELSE Done(arm, << >>, IF r.kind = "gen2" THEN << r >> ELSE << >>)
    IN  IF ~IsUtf8(e.name) THEN PANIC
        ELSE IF n \in {DLMP, FTPR, NFTP} THEN
            IF o + 4 < d.len THEN
                IF RdBytes(d, o, 4) = CPD_MAGIC THEN
                    IF AddExceeds(s, o, d.len) THEN PANIC
                    ELSE LET c == CPD_new(d, o, o + Val(s)) IN
                         IF c.kind = "panic" THEN PANIC ELSE Done("code", << c >>, << >>)
                ELSE FromArm("code", Gen2Arm(d, o, TRUE, oc))
            ELSE Done("code", << >>, << >>)
        ELSE IF n = MDMV THEN FromArm("mdmv", Gen2Arm(d, o, FALSE, oc))
        ELSE IF n \in {MFS, AFSP} THEN
            \* "if PARSE_MFS { if let Err(e) = mfs::parse(&data[o..o + s]) {
            \* println!(..) } }": without the flag nothing is sliced or parsed
            IF PARSE_MFS
            THEN IF AddExceeds(s, o, d.len) THEN PANIC ELSE Done("mfs", << >>, << >>)
            ELSE Done("mfs-skipped", << >>, << >>)
        ELSE IF n # FTUP /\ o + 4 < d.len /\ RdBytes(d, o, 4) = CPD_MAGIC
             THEN Done("unknown-cpd", << >>, << >>)
        ELSE IF o > d.len THEN PANIC
        ELSE IF Manifest_new(d, o).kind = "panic" THEN PANIC
        ELSE Done("other", << >>, << >>)

\* ------------------------------------------------------ the input images

MaxEntries == 2

FIT_MAGIC == << 95, 70, 73, 84, 95, 32, 32, 32 >>

\* An FPT header at b + 16 announcing hn entries, followed by the entries es
WithFpt(d, b, hn, es) ==
    LET RECURSIVE W(_, _)
        W(img, i) ==
            IF i > Len(es) THEN img
            ELSE LET pos == b + 16 + FPT_SIZE + (i - 1) * FPT_ENTRY_SIZE IN
                 W(Put(Put(Put(img, pos, es[i].name), pos + 8, LE32W(es[i].offset)),
                       pos + 12, LE32W(es[i].size)), i + 1)
    IN  W(Put(Put(d, b + 16, FPT_MAGIC), b + 20, LE32(hn)), 1)

\* The FIT pointer at len - 0x40 and what it points to
WithFit(d, kind) ==
    IF d.len < FITP_OFFSET THEN d
    ELSE LET at == d.len - FITP_OFFSET IN
         CASE kind = "none" -> Put(d, at, LE32W(U32_MAX))
           [] kind = "zero" -> d
           [] kind = "misaligned" -> Put(d, at, LE32W(W32(520, 65280 + 0)))
           [] kind = "outside" -> Put(d, at, LE32W(W32(0, 65280 + 16)))
           [] kind = "table" ->
                Put(Put(Put(Put(d, at, LE32W(W32(512, 65280 + 0))), 512, FIT_MAGIC),
                        520, LE32(3)), 512 + 16 + 14, << 129 >>)
           [] kind = "nomagic" ->
                Put(Put(d, at, LE32W(W32(512, 65280 + 0))), 520, LE32(2))
           [] kind = "toomany" ->
                Put(Put(Put(d, at, LE32W(W32(512, 65280 + 0))), 512, FIT_MAGIC),
                    520, LE32(4096))

\* Partition contents placed at absolute offset at
WithPart(d, at, kind) ==
    CASE kind = "zero" -> d
      [] kind = "cpd0" -> Put(Put(d, at, CPD_MAGIC), at + 12, NAME.FTPR)
      [] kind = "cpd1" -> Put(Put(Put(d, at, CPD_MAGIC), at + 4, LE32(1)), at + 12, NAME.FTPR)
      [] kind = "cpdbig" -> Put(Put(d, at, CPD_MAGIC), at + 4, LE32(1000))
      [] kind = "gen2" ->
            Put(Put(Put(Put(d, at + MAN_MAGIC_OFFSET, MANIFEST2_MAGIC),
                        at + MAN_ENTRIES_OFFSET, LE32(1)),
                    at + MANIFEST_SIZE + GEN2_HEADER_SIZE + GEN2_ENTRY_OFFSET, LE32(16)),
                at + MANIFEST_SIZE + GEN2_HEADER_SIZE + GEN2_ENTRY_MOD_BASE, LE32W(U32_MAX))
      [] kind = "gen2far" ->
            Put(Put(Put(d, at + MAN_MAGIC_OFFSET, MANIFEST2_MAGIC),
                    at + MAN_ENTRIES_OFFSET, LE32(1)),
                at + MANIFEST_SIZE + GEN2_HEADER_SIZE + GEN2_ENTRY_OFFSET, LE32(65536))

EntryChoices ==
    { [name |-> NAME.FTPR, offset |-> W32(64, 0), size |-> W32(64, 0)],
      [name |-> NAME.FTPR, offset |-> W32(64, 5 * 64), size |-> W32(2048, 0)],
      [name |-> NAME.MDMV, offset |-> W32(64, 0), size |-> W32(64, 0)],
      [name |-> NAME.MFS, offset |-> W32(64, 0), size |-> W32(64, 0)],
      [name |-> NAME.AFSP, offset |-> W32(64, 0), size |-> W32(64, 0)],
      [name |-> NAME.EFFS, offset |-> W32(64, 0), size |-> W32(64, 0)],
      [name |-> NAME.PSVN, offset |-> W32(64, 0), size |-> W32(64, 0)],
      [name |-> NAME.PSVN, offset |-> W32(1008, 0), size |-> W32(16, 0)],
      [name |-> NAME.BAD, offset |-> U32_ZERO, size |-> U32_ZERO] }

RECURSIVE SeqsUpTo(_, _)
SeqsUpTo(S, n) ==
    IF n = 0 THEN {<< >>}
    ELSE LET T == SeqsUpTo(S, n - 1) IN
         T \cup {Append(t, x) : t \in {u \in T : Len(u) = n - 1}, x \in S}

\* Scenario A: 0x400 bytes, "$FPT" at 0x10, entries = 0, everything else zero
ScenarioA == WithFpt(Bytes(1024, 0), 0, 0, << >>)

Images ==
    LET FitKinds == {"none", "zero", "misaligned", "outside", "table", "nomagic", "toomany"}
        PartKinds == {"zero", "cpd0", "cpd1", "cpdbig", "gen2", "gen2far"}
        ImageLens == {0, 48, 63, 64, 1024}
    IN
    \* lengths and FIT pointers, with and without an FPT at candidate 0
    { WithFit(d, k) : d \in {Bytes(n, 0) : n \in ImageLens}
                          \cup {WithFpt(Bytes(n, 0), 0, 0, << >>) : n \in ImageLens},
                      k \in FitKinds }
    \* an FPT header announcing more entries than the image holds
    \cup { WithFit(WithFpt(Bytes(1024, 0), 0, 40, << >>), "none") }
    \* FPT at candidate 0 / 0x20 with entries and partition contents
    \cup { WithFit(WithPart(WithFpt(Bytes(1024, 0), b, Len(es), es), at, k), "none") :
             b \in {0, 32}, es \in SeqsUpTo(EntryChoices, MaxEntries),
             at \in {64, 112}, k \in PartKinds }
    \* FPT at candidate 0x1000, and in the middle of a page
    \cup { WithFit(WithPart(WithFpt(Bytes(4096 + 1024, 0), b, 1, << e >>), b + 64, k), "none") :
             b \in {4096, 4096 + 48}, e \in EntryChoices, k \in {"zero", "cpd0"} }
    \* two tables: at candidate 0x20 and at candidate 0x100
    \cup { WithFit(WithFpt(WithFpt(Bytes(1024, 0), 256, 1, << e >>), 32, Len(es), es), "none") :
             e \in EntryChoices, es \in SeqsUpTo({e2 \in EntryChoices : e2.name = NAME.PSVN}, 1) }
    \* a table whose header ends with the image
    \cup { WithFit(WithFpt(Bytes(1024, 0), 1024 - 48, 0, << >>), "none") }
    \* a "$CPD" found by the first scan only
    \cup { WithFit(WithPart(Bytes(1024, 0), 256, k), "none") : k \in {"cpd0", "cpdbig"} }

\* ----------------------------------------------------- parse(): the state

VARIABLES
    overflow_checks,  \* the build panics on arithmetic overflow
    \* parse() of lib.rs
    data,             \* the image
    pc,               \* "fit", "cpdscan", "fptscan", "entries", "done", "panic"
    fit,              \* the result of Fit::new
    base,             \* the scan position, then the partition base
    cand,             \* the candidate position b at which "$FPT" matched
    entries,          \* the FPT entries read
    directories,      \* the CPD directories collected
    gen2dirs,         \* the Gen 2 directories collected
    ei,               \* the entry the dispatch loop is at
    resolved,         \* per entry dispatched: the arm taken and the offset o
    result,           \* "tree", "nofpt" or "none"
    \* mfs::parse of mfs.rs
    mfs_data,         \* the partition
    m_pc,             \* the position in parse / parse_gen3 / get_file / get_blob
    pos,              \* the page offset of the page loop
    blank_page,       \* the offset of the blank page seen
    n_data_chunks,    \* the data chunks the geometry predicts
    data_pages,       \* the data pages parsed
    sys_pages,        \* the system pages parsed
    chunks,           \* the merged chunk map
    n_sys_chunks,     \* first_chunk of the first data page
    fat,              \* the file allocation table
    n_files,          \* vh.files
    file_index,       \* the file print_files is at
    gf,               \* the activation of get_file: caller, fi, i_node, data, steps, ret
    stack,            \* the get_blob activations: fi, files, i
    visits,           \* per get_blob call: fi, the file read, the outcome, the entries parsed
    m_result,         \* what mfs::parse returned
    \* a function of the crate applied on its own
    call,             \* the function and its argument
    ret,              \* what it returned
    \* the Gen 2 parsers: parse_gen2 of mfs.rs, parse of mfs/gen2.rs
    gen2              \* the activation: fn, verbose, pc, offset, pos, dead, chunks,
                      \* pages, log, i, result

fptvars == << data, pc, fit, base, cand, entries, directories, gen2dirs, ei,
              resolved, result >>
mfsvars == << mfs_data, m_pc, pos, blank_page, n_data_chunks, data_pages,
              sys_pages, chunks, n_sys_chunks, fat, n_files, file_index, gf,
              stack, visits, m_result >>
fnvars == << call, ret >>
vars == << overflow_checks, fptvars, mfsvars, fnvars, gen2 >>

\* No function is applied on its own
FnIdle == call = [f |-> "none"] /\ ret = [kind |-> "none"]

\* No Gen 2 parser is running
Gen2Idle == gen2 = [pc |-> "idle"]

\* The state of mfs::parse before a call: parse() of lib.rs does not call it
\* (PARSE_MFS is false)
MfsIdle ==
    /\ m_pc = "idle"
    /\ pos = 0
    /\ blank_page = 0
    /\ n_data_chunks = 0
    /\ data_pages = << >>
    /\ sys_pages = << >>
    /\ chunks = << >>
    /\ n_sys_chunks = 0
    /\ fat = Bytes(0, 0)
    /\ n_files = 0
    /\ file_index = 0
    /\ gf = [caller |-> "none"]
    /\ stack = << >>
    /\ visits = << >>
    /\ m_result = [kind |-> "none"]

Init ==
    /\ data \in Images
    /\ overflow_checks \in BOOLEAN
    /\ pc = "fit"
    /\ fit = [kind |-> "none"]
    /\ base = 0
    /\ cand = -1
    /\ entries = << >>
    /\ directories = << >>
    /\ gen2dirs = << >>
    /\ ei = 1
    /\ resolved = << >>
    /\ result = "none"
    /\ mfs_data = Bytes(0, 0)
    /\ MfsIdle
    /\ FnIdle
    /\ Gen2Idle

\* lib.rs 41-51
ParseFit ==
    /\ pc = "fit"
    /\ fit' = Fit_new(data, overflow_checks)
    /\ pc' = IF fit'.kind = "panic" THEN "panic" ELSE "cpdscan"
    /\ UNCHANGED << gen2, fnvars, mfsvars, data, overflow_checks, base, cand, entries, directories,
                    gen2dirs, ei, resolved, result >>

\* lib.rs 58-66
ScanCpds ==
    /\ pc = "cpdscan"
    /\ LET r == ScanCpdsFrom(data, 0, << >>) IN
       IF r.kind = "panic"
       THEN pc' = "panic" /\ UNCHANGED directories
       ELSE pc' = "fptscan" /\ directories' = r.dirs
    /\ UNCHANGED << gen2, fnvars, mfsvars, data, overflow_checks, fit, base, cand, entries, gen2dirs,
                    ei, resolved, result >>

\* A guard that wants one byte more than the header needs
FptGuard_Strict == base + 16 + FPT_SIZE < data.len

FptGuard == base + 16 + FPT_SIZE <= data.len
FptMatch == RdBytes(data, base + 16, 4) = FPT_MAGIC

\* lib.rs 74-78, 203: a candidate without the magic
ScanFpt ==
    /\ pc = "fptscan" /\ FptGuard /\ ~FptMatch
    /\ base' = base + 16
    /\ UNCHANGED << gen2, fnvars, mfsvars, data, overflow_checks, pc, fit, cand, entries, directories,
                    gen2dirs, ei, resolved, result >>

\* lib.rs 78-91: the magic matched; read the entries, realign the base
FoundFpt ==
    /\ pc = "fptscan" /\ FptGuard /\ FptMatch
    /\ LET r == ReadEntries(data, base + 16) IN
       IF r.kind = "panic"
       THEN pc' = "panic" /\ UNCHANGED << base, cand, entries >>
       ELSE /\ pc' = "entries"
            /\ entries' = r.entries
            /\ cand' = base
            /\ base' = RealignBase(base)
    /\ UNCHANGED << gen2, fnvars, mfsvars, data, overflow_checks, fit, directories, gen2dirs, ei,
                    resolved, result >>

\* lib.rs 93-190: one entry
ProcessEntry ==
    /\ pc = "entries" /\ ei <= Len(entries)
    /\ LET r == DispatchEntry(data, base, entries[ei], overflow_checks) IN
       IF r.kind = "panic"
       THEN pc' = "panic" /\ UNCHANGED << directories, gen2dirs, ei, resolved >>
       ELSE /\ directories' = directories \o r.cpds
            /\ gen2dirs' = gen2dirs \o r.gen2
            /\ resolved' = Append(resolved, [arm |-> r.arm, o |-> r.o])
            /\ ei' = ei + 1
            /\ UNCHANGED pc
    /\ UNCHANGED << gen2, fnvars, mfsvars, data, overflow_checks, fit, base, cand, entries, result >>

\* lib.rs 195-201
ReturnTree ==
    /\ pc = "entries" /\ ei > Len(entries)
    /\ pc' = "done"
    /\ result' = "tree"
    /\ UNCHANGED << gen2, fnvars, mfsvars, data, overflow_checks, fit, base, cand, entries, directories,
                    gen2dirs, ei, resolved >>

\* lib.rs 205
ReturnNoFpt ==
    /\ pc = "fptscan" /\ ~FptGuard
    /\ pc' = "done"
    /\ result' = "nofpt"
    /\ UNCHANGED << gen2, fnvars, mfsvars, data, overflow_checks, fit, base, cand, entries, directories,
                    gen2dirs, ei, resolved >>

Next ==
    \/ ParseFit
    \/ ScanCpds
    \/ ScanFpt
    \/ FoundFpt
    \/ ProcessEntry
    \/ ReturnTree
    \/ ReturnNoFpt

Spec == Init /\ [][Next]_vars

\* ---------------------------------------------------- claims on parse()

MAX_INPUT_SIZE == 1024

\* C1: for every input of at most 1024 bytes (the fuzz target's inputs),
\* parse(bytes) returns a tree or the NoFpt error and never panics.
C1_NeverPanics == data.len <= MAX_INPUT_SIZE => pc # "panic"

\* C9: Scenario A (0x400 bytes, "$FPT" at 0x10, entries = 0, all else zero):
\* parse returns a tree with base 0, no entries, no CPD directories, no Gen 2
\* directories, and the FIT is reported as an error value.
C9_ScenarioA ==
    (data = ScenarioA /\ pc \in {"done", "panic"}) =>
        /\ pc = "done" /\ result = "tree"
        /\ base = 0 /\ entries = << >> /\ directories = << >> /\ gen2dirs = << >>
        /\ fit.kind = "err"

\* C10: when "$FPT" matched at candidate b (magic at b + 16) the partition
\* base is b + 16 if b % 0x1000 # 0 and b otherwise, and every entry's data
\* offset is base + (entry.offset & 0x003F_FFFF); b = 0x20 gives base 0x30
\* and offset 0x40 resolves to 0x70.
C10_Realign ==
    cand # -1 =>
        /\ RdBytes(data, cand + 16, 4) = FPT_MAGIC
        /\ (cand % 4096 # 0 => base = cand + 16)
        /\ (cand % 4096 = 0 => base = cand)
        /\ (cand = 32 => base = 48)
        /\ \A i \in 1..Len(resolved) :
              /\ resolved[i].o =
                    base + entries[i].offset.lo + 65536 * (entries[i].offset.hi % 64)
              /\ (cand = 32 /\ entries[i].offset = W32(64, 0) => resolved[i].o = 112)

\* C10 witness: "$FPT" matched at b = 0x20, an entry with offset 0x40 was
\* dispatched, and the tree was returned.
C10_Witness ==
    /\ cand = 32 /\ result = "tree"
    /\ \E i \in 1..Len(resolved) : entries[i].offset = W32(64, 0) /\ resolved[i].o = 112

\* C10 witness of the aligned case: "$FPT" matched at b = 0x1000 with an
\* entry whose offset has bits above bit 21 set.
C10_WitnessAligned ==
    /\ cand = 4096 /\ base = 4096
    /\ \E i \in 1..Len(resolved) : entries[i].offset.hi >= 64

\* The candidates of the $FPT scan: b = 0, 16, 32, ... with room for 16
\* bytes and the 32-byte header; those with "$FPT" at b + 16
C11_Candidates == {b \in 0..data.len : b % 16 = 0 /\ b + 48 <= data.len}
C11_Matches ==
    {b \in C11_Candidates :
        /\ Rd8(data, b + 16) = 36 /\ Rd8(data, b + 17) = 70
        /\ Rd8(data, b + 18) = 80 /\ Rd8(data, b + 19) = 84}
C11_Count(b) ==
    Rd8(data, b + 20) + 256 * Rd8(data, b + 21) + 65536 * Rd8(data, b + 22)
        + 16777216 * Rd8(data, b + 23)
C11_Record(at) ==
    [name |-> << Rd8(data, at), Rd8(data, at + 1), Rd8(data, at + 2), Rd8(data, at + 3) >>,
     offset |-> [lo |-> Rd8(data, at + 8) + 256 * Rd8(data, at + 9),
                 hi |-> Rd8(data, at + 10) + 256 * Rd8(data, at + 11)],
     size |-> [lo |-> Rd8(data, at + 12) + 256 * Rd8(data, at + 13),
               hi |-> Rd8(data, at + 14) + 256 * Rd8(data, at + 15)]]

C15_FitNeedsMagic ==
    fit.kind = "ok" =>
        /\ Rd32(data, data.len - FITP_OFFSET) # U32_MAX
        /\ fit.offset % 16 = 0
        /\ RdBytes(data, fit.offset, 8) = FIT_MAGIC
        /\ Val(fit.count) + 1 = Val(Rd32(data, fit.offset + 8))

\* The entries named MFS or AFSP among those dispatched
C12_MfsEntries == {i \in 1..Len(resolved) : BE32(entries[i].name) \in {MFS, AFSP}}

C17_StartsWithCpd(i) ==
    /\ resolved[i].o + 4 <= data.len
    /\ RdBytes(data, resolved[i].o, 4) = CPD_MAGIC

\* The directories at offset o: those there are, and those the first scan
\* (every 16-byte aligned offset from 16 on) found
C17_DirsAt(o) == Cardinality({k \in 1..Len(directories) : directories[k].offset = o})
C17_ScannedAt(o) ==
    IF o % 16 = 0 /\ o >= 16 /\ o + FPT_SIZE <= data.len /\ RdBytes(data, o, 4) = CPD_MAGIC
    THEN 1 ELSE 0
\* The entries of the names in S dispatched at offset o
C17_Dispatched(S, o) ==
    Cardinality({j \in 1..Len(resolved) : resolved[j].o = o /\ BE32(entries[j].name) \in S})

\* C17: dispatch by name.  Every entry named MDMV, DLMP, FTPR or NFTP whose
\* data starts with "$CPD" is decoded as a CPD and added to the directories;
\* every entry named MFS, AFSP or EFFS is handed to the MFS parser; an entry
\* of any other name is never decoded as a directory.
C17_DispatchByName ==
    \A i \in 1..Len(resolved) :
        LET n == BE32(entries[i].name) IN
        /\ (n \in {MDMV, DLMP, FTPR, NFTP} /\ C17_StartsWithCpd(i)
              => C17_DirsAt(resolved[i].o) =
                    C17_ScannedAt(resolved[i].o)
                        + C17_Dispatched({MDMV, DLMP, FTPR, NFTP}, resolved[i].o))
        /\ (n \in {MFS, AFSP, BE32(NAME.EFFS)} => resolved[i].arm = "mfs")
        /\ (n \notin {MDMV, DLMP, FTPR, NFTP} => resolved[i].arm \notin {"code", "mdmv"})

\* ------------------------------------------------- MFS: input partitions

\* Partitions are built from a volume (the file count, the FAT entries and
\* the payloads of the data chunks) and a page layout.  The system area of
\* the built volumes has N_SYS chunks and F files.
N_SYS == 16
F == 12
MaxPages == 3

RECURSIVE Flatten(_)
Flatten(ss) == IF ss = << >> THEN << >> ELSE Head(ss) \o Flatten(Tail(ss))

RECURSIVE SetToSeq(_)
SetToSeq(S) ==
    IF S = {} THEN << >>
    ELSE LET m == CHOOSE x \in S : \A y \in S : x <= y IN << m >> \o SetToSeq(S \ {m})

RECURSIVE PutAll(_, _)
PutAll(d, ws) ==
    IF ws = << >> THEN d ELSE PutAll(Put(d, ws[1].o, ws[1].bs), Tail(ws))

Pad64(bs) == bs \o Zeros(CHUNK_DATA_SIZE - Len(bs))

\* A file stored in the chunks of the inodes of chain, FAT[last] = tail
ChainFat(fi, chain, tail) ==
    [x \in {fi} \cup {chain[k] : k \in DOMAIN chain} |->
        IF x = fi THEN chain[1]
        ELSE LET k == CHOOSE k \in DOMAIN chain : chain[k] = x
             IN  IF k = Len(chain) THEN tail ELSE chain[k + 1]]

ChainChunks(chain, bs) ==
    [j \in {chain[k] - F : k \in DOMAIN chain} |->
        LET k == CHOOSE k \in DOMAIN chain : chain[k] - F = j
        IN  Pad64(SubSeq(bs, 64 * (k - 1) + 1,
                         IF 64 * k <= Len(bs) THEN 64 * k ELSE Len(bs)))]

\* A file of the given bytes at inodes first, first + 1, ...
PlainFile(fi, first, bs) ==
    LET n == (Len(bs) + CHUNK_DATA_SIZE - 1) \div CHUNK_DATA_SIZE
        chain == [k \in 1..n |-> first + k - 1]
    IN  [fat |-> ChainFat(fi, chain, Len(bs) - CHUNK_DATA_SIZE * (n - 1)),
         dchunks |-> ChainChunks(chain, bs)]

EmptyVol == [files |-> F, fat |-> << >>, dchunks |-> << >>]

AddFile(v, f) ==
    [files |-> v.files, fat |-> f.fat @@ v.fat, dchunks |-> f.dchunks @@ v.dchunks]

\* The bytes of the system area: VolHeader (magic at 0, files at 12), then
\* the FAT
SysBytes(v) ==
    PutAll(Bytes(N_SYS * CHUNK_DATA_SIZE, 0),
           << [o |-> 0, bs |-> LE32W(VOL_MAGIC)],
              [o |-> VOL_FILES_OFFSET, bs |-> LE16(v.files)] >>
           \o [k \in 1..Cardinality(DOMAIN v.fat) |->
                 LET i == SetToSeq(DOMAIN v.fat)[k]
                 IN  [o |-> VOL_HEADER_SIZE + 2 * i, bs |-> LE16(v.fat[i])]])

\* The items of a system page that stores the non-zero chunks of the
\* system area, in index order, then the end-of-list slot
SysItems(v) ==
    LET sb == SysBytes(v)
        blocks == SetToSeq({x \div CHUNK_DATA_SIZE : x \in DOMAIN sb.ov})
    IN  [k \in DOMAIN blocks |->
            [kind |-> "chunk", idx |-> blocks[k],
             payload |-> RdBytes(sb, blocks[k] * CHUNK_DATA_SIZE, CHUNK_DATA_SIZE),
             flip |-> 0]]
        \o << [kind |-> "last"] >>

\* The writes of the slot items of a system page at p, from slot position
\* k on, prev being the index derived so far: a chunk item's slot value is
\* crc_idx(prev) XOR idx and its checksum covers payload and index (xor flip)
RECURSIVE SysItemWrites(_, _, _, _)
SysItemWrites(p, items, k, prev) ==
    IF items = << >> THEN << >>
    ELSE LET it == Head(items)
             so == p + SLOTS_OFFSET + 2 * k
             co == p + SYS_CHUNKS_OFFSET + k * CHUNK_SIZE
         IN  IF it.kind = "chunk"
             THEN << [o |-> so, bs |-> LE16(BitXor(crc_idx(prev), it.idx))],
                     [o |-> co, bs |-> it.payload
                          \o LE16(BitXor(ChunkChecksum(it.payload, it.idx), it.flip))] >>
                  \o SysItemWrites(p, Tail(items), k + 1, it.idx)
             ELSE IF it.kind = "last"
             THEN << [o |-> so, bs |-> LE16(SLOT_LAST)] >>
                  \o SysItemWrites(p, Tail(items), k + 1, prev)
             ELSE IF it.kind = "skip"
             THEN SysItemWrites(p, Tail(items), k + it.n, prev)
             ELSE SysItemWrites(p, Tail(items), k + 1, prev)

\* The writes of a page of the layout at p
PageWrites(pg, p) ==
    IF pg.kind = "blank" THEN << [o |-> p, bs |-> pg.word] >>
    ELSE IF pg.kind = "sys"
    THEN << [o |-> p, bs |-> LE32W(GEN3_PAGE_MAGIC)],
            [o |-> p + PAGE_USN_OFFSET, bs |-> LE32W(pg.usn)],
            [o |-> p + PAGE_FIRST_CHUNK_OFFSET, bs |-> LE16(0)] >>
         \o SysItemWrites(p, pg.items, 0, 0)
    ELSE << [o |-> p, bs |-> LE32W(GEN3_PAGE_MAGIC)],
            [o |-> p + PAGE_USN_OFFSET, bs |-> LE32W(U32_ZERO)],
            [o |-> p + PAGE_FIRST_CHUNK_OFFSET, bs |-> LE16(pg.first_chunk)] >>
         \o Flatten([k \in 1..Cardinality(DOMAIN pg.used) |->
                LET cp == SetToSeq(DOMAIN pg.used)[k]
                IN  << [o |-> p + SLOTS_OFFSET + cp, bs |-> << 0 >>],
                       [o |-> p + DATA_CHUNKS_OFFSET + cp * CHUNK_SIZE,
                        bs |-> pg.used[cp] \o << 0, 0 >>] >>])

\* The partition of a layout, erased flash (0xff) where nothing is written,
\* cut (or extended) by trim bytes
Partition(layout, trim) ==
    PutAll(Bytes(Len(layout) * GEN3_PAGE_SIZE + trim, 255),
           Flatten([k \in DOMAIN layout |-> PageWrites(layout[k], (k - 1) * GEN3_PAGE_SIZE)]))

\* ---- volumes

SecBytes(flags, nonce) == Zeros(32) \o LE32W(flags) \o nonce
DirEnt(file_no, mode, name) ==
    LE32W(file_no) \o LE16(mode) \o Zeros(6) \o name \o Zeros(12 - Len(name))

Pattern(n, k) == [i \in 1..n |-> (i + k) % 251]

\* The file FILE_A and the sub-directory SUB_DIR, next to the root directory
FILE_A == ROOT_DIR_INDEX - 2
SUB_DIR == ROOT_DIR_INDEX + 1

SecOf(kind) ==
    IF kind = "ok" THEN SecBytes(U32_ZERO, Zeros(16))
    ELSE IF kind = "enc" THEN SecBytes(W32(4, 32), Pattern(16, 0))
    ELSE IF kind = "badflags" THEN SecBytes(W32(0, 16), Zeros(16))
    ELSE SecBytes(U32_ZERO, << 1 >> \o Zeros(15))

EntryLists ==
    { << >>,
      << DirEnt(W32(FILE_A, 0), 0, << 97 >>) >>,
      << DirEnt(W32(ROOT_DIR_INDEX, 0), VFS_DIRECTORY, << 46 >>),
         DirEnt(W32(ROOT_DIR_INDEX, 0), VFS_DIRECTORY, << 46, 46 >>) >>,
      << DirEnt(W32(SUB_DIR, 4096), VFS_DIRECTORY, << 100 >>),
         DirEnt(W32(FILE_A, 0), 0, << 255 >>) >>,
      << DirEnt(W32(FILE_A, 0), 0, << 46, 46, 99, 102, 103 >>),
         DirEnt(W32(4095, 0), 0, << 255, 97 >>) >>,
      \* directories named "..cfg", ".x" and by bytes that are not UTF-8
      << DirEnt(W32(SUB_DIR, 0), VFS_DIRECTORY, << 46, 46, 99, 102, 103 >>),
         DirEnt(W32(SUB_DIR, 0), VFS_DIRECTORY, << 46, 120 >>),
         DirEnt(W32(SUB_DIR, 0), VFS_DIRECTORY, << 255, 100 >>) >>,
      \* two directories whose file, the 60 bytes of "a", is no directory
      << DirEnt(W32(FILE_A, 0), VFS_DIRECTORY, << 102 >>),
         DirEnt(W32(FILE_A, 0), VFS_DIRECTORY, << 103 >>) >>,
      \* a directory whose file index is outside the FAT
      << DirEnt(W32(4095, 0), VFS_DIRECTORY, << 104 >>) >> }

\* A volume with a root directory of the given entries, r surplus bytes and
\* a security section, a file "a" and a sub-directory that lists itself
DirVol(ents, r, sec) ==
    AddFile(AddFile(AddFile(EmptyVol,
        PlainFile(ROOT_DIR_INDEX, 70, Flatten(ents) \o SecOf(sec) \o Zeros(r))),
        PlainFile(FILE_A, 80, Pattern(60, 7))),
        PlainFile(SUB_DIR, 90,
                  DirEnt(W32(SUB_DIR, 0), VFS_DIRECTORY, << 115 >>) \o SecOf("ok")))

Root0Vol == AddFile(EmptyVol, PlainFile(ROOT_DIR_INDEX, 70, SecOf("ok")))

\* Volumes with one file, FILE_A, given by its FAT chain
FileVols ==
    { AddFile(EmptyVol, [fat |-> ChainFat(FILE_A, c.chain, c.tail),
                         dchunks |-> ChainChunks(c.chain, Pattern(64 * Len(c.chain), 3))]) :
        c \in { [chain |-> << 70, 71 >>, tail |-> 32],
                [chain |-> << 71, 70 >>, tail |-> 32],
                [chain |-> << 70, 71, 72 >>, tail |-> 32],
                [chain |-> << 70 >>, tail |-> 1],
                [chain |-> << 70 >>, tail |-> 64],
                [chain |-> << 70 >>, tail |-> 65],
                [chain |-> << 70 >>, tail |-> 66],
                [chain |-> << 70 >>, tail |-> 0],
                [chain |-> << 70 >>, tail |-> 70],
                [chain |-> << 70, 71 >>, tail |-> 70],
                [chain |-> << 70 >>, tail |-> 65535],
                [chain |-> << 70 >>, tail |-> 200],
                [chain |-> << 70 >>, tail |-> 300] } }
    \cup { [files |-> F, fat |-> (FILE_A :> h), dchunks |-> << >>] : h \in {5, 200, 300, 65535} }

\* ---- layouts

BlankFF == [kind |-> "blank", word |-> << 255, 255, 255, 255 >>]
SysPg(usn, items) == [kind |-> "sys", usn |-> W32(usn, 0), items |-> items]

\* The k-th data page of the volume, stored with first_chunk fc
DataPg(v, k, fc) ==
    [kind |-> "data", first_chunk |-> fc,
     used |-> [cp \in {j - DATA_PAGE_CHUNKS * k : j \in {x \in DOMAIN v.dchunks :
                                    x \div DATA_PAGE_CHUNKS = k}} |->
                  v.dchunks[cp + DATA_PAGE_CHUNKS * k]]]

\* The usual layout: a system page, the blank page, a data page
Usual(v) == << SysPg(1, SysItems(v)), BlankFF, DataPg(v, 0, N_SYS) >>

\* Layouts by page kinds: the system pages hold the system area, the data
\* pages come with their first_chunk in sequence
KindLayout(v, ks) ==
    [i \in DOMAIN ks |->
        IF ks[i] = "blank00" THEN [kind |-> "blank", word |-> << 0, 0, 0, 0 >>]
        ELSE IF ks[i] = "blankff" THEN BlankFF
        ELSE IF ks[i] = "sys" THEN SysPg(i, SysItems(v))
        ELSE LET k == Cardinality({j \in 1..(i - 1) : ks[j] = "data"})
             IN  DataPg(v, k, N_SYS + DATA_PAGE_CHUNKS * k)]

\* Layouts with the system page's slots and checksums varied
SysItemVariants(v) ==
    LET good == SysItems(v) IN
    { good,
      << [good[1] EXCEPT !.flip = 1] >> \o Tail(good),
      << good[1], [good[2] EXCEPT !.flip = 32768] >> \o Tail(Tail(good)),
      << [kind |-> "unused"] >> \o good,
      << good[1], [kind |-> "unused"] >> \o Tail(good),
      good \o << [good[1] EXCEPT !.flip = 1] >>,
      SubSeq(good, 1, Len(good) - 1),
      << [kind |-> "last"] >> \o good,
      << [kind |-> "skip", n |-> SYS_PAGE_CHUNKS - 1] >> \o good,
      << [kind |-> "skip", n |-> SYS_PAGE_CHUNKS] >> \o good,
      << [good[1] EXCEPT !.idx = N_SYS] >> \o Tail(good),
      << [good[1] EXCEPT !.idx = 2907] >>,
      \* two used slots that derive the same index
      << [good[1] EXCEPT !.payload = Pad64(<< 1 >>)] >> \o good,
      << good[1], [good[1] EXCEPT !.payload = Pad64(<< 1 >>)] >> \o Tail(good) }

\* ---- the partitions

Partitions ==
    LET \* the kinds of the pages of a layout
        KindSeqs ==
            (UNION {[1..n -> {"blankff", "sys", "data"}] : n \in 1..MaxPages})
            \cup { << "blank00", "sys", "data" >>,
                   << "sys", "blank00", "data" >>,
                   << "sys", "data", "blank00" >>,
                   << "blank00", "sys", "blankff" >>,
                   << "blank00", "blank00", "sys" >>,
                   << "blank00", "blankff", "sys", "data" >>,
                   << "blank00", "sys", "data", "blankff" >>,
                   << "blank00", "sys", "data", "blank00" >>,
                   << "blank00", "blank00", "blank00", "sys", "data" >>,
                   << "sys", "blankff", "data", "data" >> }
        \* the data pages' first_chunk out of sequence, or stored out of
        \* order (l[1] and l[3] are the parts of the volume the pages hold),
        \* and one whose chunk indices wrap around into the system chunks
        OrderLayouts ==
            { << SysPg(1, SysItems(Root0Vol)), BlankFF, DataPg(Root0Vol, l[1], l[2]),
                 DataPg(Root0Vol, l[3], l[4]) >> :
                l \in { << 0, N_SYS, 1, N_SYS + DATA_PAGE_CHUNKS >>,
                        << 1, N_SYS + DATA_PAGE_CHUNKS, 0, N_SYS >>,
                        << 0, N_SYS, 1, N_SYS >>,
                        << 0, N_SYS, 1, N_SYS + DATA_PAGE_CHUNKS + 1 >>,
                        << 0, N_SYS, 1, N_SYS + 100 >>,
                        << 0, N_SYS + 1, 1, N_SYS + DATA_PAGE_CHUNKS + 1 >> } }
            \cup { << SysPg(1, SysItems(Root0Vol)), BlankFF, DataPg(Root0Vol, 0, fc) >> :
                     fc \in {1, 2, N_SYS + 1, 65500} }
            \cup { << SysPg(1, SysItems(Root0Vol)), BlankFF,
                      [kind |-> "data", first_chunk |-> 65500, used |-> (36 :> Zeros(64))] >> }
        \* two system pages: one holds the system area, the other only
        \* another payload for chunk 0; in either physical order, with the
        \* USNs u
        UsnLayouts ==
            LET good == SysItems(Root0Vol)
                other == << [good[1] EXCEPT !.payload = Pad64(<< 1 >>)], [kind |-> "last"] >>
            IN  { << SysPg(u[1], its[1]), SysPg(u[2], its[2]), BlankFF, DataPg(Root0Vol, 0, N_SYS) >> :
                    u \in {<< 2, 1 >>, << 1, 2 >>, << 1, 1 >>},
                    its \in {<< good, other >>, << other, good >>} }
    IN
    { Partition(KindLayout(Root0Vol, ks), 0) : ks \in KindSeqs }
    \cup { Partition(l, 0) : l \in OrderLayouts \cup UsnLayouts }
    \cup { Partition(<< SysPg(1, items), BlankFF, DataPg(Root0Vol, 0, N_SYS) >>, 0) :
             items \in SysItemVariants(Root0Vol) }
    \cup { Partition(Usual(v), 0) : v \in FileVols }
    \cup { Partition(Usual(DirVol(ents, r, sec)), 0) :
             ents \in EntryLists, r \in {0, 1, 23}, sec \in {"ok", "enc", "badflags", "badnonce"} }
    \cup { Partition(Usual(Root0Vol), trim) : trim \in {-1, 5} }
    \* a system area of 3 chunks, too short for the FAT; and a single data
    \* page with first_chunk 0xffff whose second chunk, the volume header
    \* with 4 files, has the index 0 in u16
    \cup { Partition(<< SysPg(1, SysItems(Root0Vol)), BlankFF, DataPg(Root0Vol, 0, 3) >>, 0),
           Partition(<< [kind |-> "data", first_chunk |-> 65535,
                         used |-> (1 :> Pad64(LE32W(VOL_MAGIC) \o Zeros(8) \o LE16(4)))] >>, 0) }
    \cup { Bytes(n, 0) : n \in {0, 3, 100} }


\* ------------------------------------------------ MFS: the state machine

MaxSteps == 260
MaxDepth == 3

IdleFpt ==
    /\ data = Bytes(0, 0)
    /\ pc = "idle"
    /\ fit = [kind |-> "none"]
    /\ base = 0
    /\ cand = -1
    /\ entries = << >>
    /\ directories = << >>
    /\ gen2dirs = << >>
    /\ ei = 1
    /\ resolved = << >>
    /\ result = "none"

InitMfs ==
    /\ overflow_checks \in BOOLEAN
    /\ IdleFpt
    /\ FnIdle
    /\ Gen2Idle
    /\ mfs_data \in Partitions
    /\ m_pc = "parse"
    /\ pos = 0
    /\ blank_page = 0
    /\ n_data_chunks = 0
    /\ data_pages = << >>
    /\ sys_pages = << >>
    /\ chunks = << >>
    /\ n_sys_chunks = 0
    /\ fat = Bytes(0, 0)
    /\ n_files = 0
    /\ file_index = 0
    /\ gf = [caller |-> "none"]
    /\ stack = << >>
    /\ visits = << >>
    /\ m_result = [kind |-> "none"]

MfsFail(r) == m_pc' = r.kind /\ m_result' = r

\* mfs::parse, lines 1047-1057: the first four bytes pick the generation
MfsParse ==
    /\ m_pc = "parse"
    /\ IF mfs_data.len < 4 THEN MfsFail(PANIC)
       ELSE IF IsGen2Magic(Rd32(mfs_data, 0))
            THEN m_pc' = "gen2" /\ UNCHANGED m_result
            ELSE m_pc' = "gen3" /\ UNCHANGED m_result
    /\ UNCHANGED << gen2, fnvars, overflow_checks, fptvars, mfs_data, pos, blank_page,
                    n_data_chunks, data_pages, sys_pages, chunks, n_sys_chunks,
                    fat, n_files, file_index, gf, stack, visits >>

\* parse_gen3, lines 547-558: the geometry.  n_pages - n_sys_pages - 1 is a
\* usize subtraction; wrapped, n_data_chunks is 2^64 - 122, kept here as -122.
Gen3Start ==
    /\ m_pc = "gen3"
    /\ LET n_pages == mfs_data.len \div GEN3_PAGE_SIZE
           n_sys_pages == n_pages \div 12
       IN  IF n_pages - n_sys_pages < 1 /\ overflow_checks
           THEN MfsFail(PANIC) /\ UNCHANGED n_data_chunks
           ELSE /\ n_data_chunks' = (n_pages - n_sys_pages - 1) * DATA_PAGE_CHUNKS
                /\ m_pc' = "pages"
                /\ UNCHANGED m_result
    /\ UNCHANGED << gen2, fnvars, overflow_checks, fptvars, mfs_data, pos, blank_page,
                    data_pages, sys_pages, chunks, n_sys_chunks,
                    fat, n_files, file_index, gf, stack, visits >>

\* parse_gen3, lines 560-599: one page of the loop
ScanPage ==
    /\ m_pc = "pages" /\ pos < mfs_data.len
    /\ IF pos + GEN3_PAGE_SIZE > mfs_data.len
       THEN MfsFail(PANIC) /\ UNCHANGED << pos, blank_page, data_pages, sys_pages >>
       ELSE IF Rd32(mfs_data, pos) = GEN3_PAGE_MAGIC
       THEN LET fc == Rd16(mfs_data, pos + PAGE_FIRST_CHUNK_OFFSET)
                usn == Rd32(mfs_data, pos + PAGE_USN_OFFSET)
                r == IF fc > 0 THEN parse_data_chunks(mfs_data, pos, fc, overflow_checks)
                     ELSE parse_sys_chunks(mfs_data, pos)
                page == [offset |-> pos, usn |-> usn, first_chunk |-> fc, chunks |-> r.chunks]
            IN  IF r.kind # "ok"
                THEN MfsFail(r) /\ UNCHANGED << pos, blank_page, data_pages, sys_pages >>
                ELSE /\ data_pages' = IF fc > 0 THEN Append(data_pages, page) ELSE data_pages
                     /\ sys_pages' = IF fc > 0 THEN sys_pages ELSE Append(sys_pages, page)
                     /\ pos' = pos + GEN3_PAGE_SIZE
                     /\ UNCHANGED << m_pc, m_result, blank_page >>
       ELSE IF blank_page # 0
            THEN /\ MfsFail([kind |-> "err", why |-> "MultipleBlankPages"])
                 /\ UNCHANGED << pos, blank_page, data_pages, sys_pages >>
            ELSE /\ blank_page' = pos
                 /\ pos' = pos + GEN3_PAGE_SIZE
                 /\ UNCHANGED << m_pc, m_result, data_pages, sys_pages >>
    /\ UNCHANGED << gen2, fnvars, overflow_checks, fptvars, mfs_data, n_data_chunks, chunks,
                    n_sys_chunks, fat, n_files, file_index, gf, stack, visits >>

\* parse_gen3, lines 600-637: sort the pages, merge their chunks
Assemble ==
    /\ m_pc = "pages" /\ pos >= mfs_data.len
    /\ sys_pages' = SortByUsn(sys_pages)
    /\ data_pages' = SortByFirstChunk(data_pages)
    /\ IF data_pages = << >>
       THEN /\ MfsFail([kind |-> "err", why |-> "NoDataPages"])
            /\ UNCHANGED << chunks, n_sys_chunks >>
       ELSE LET n_sys == data_pages'[1].first_chunk
                sm == MergeSys(sys_pages', 1, n_sys, << >>)
                dm == MergeData(data_pages', 1, n_sys, sm.chunks)
            IN  /\ n_sys_chunks' = n_sys
                /\ IF sm.kind # "ok" THEN MfsFail(sm) /\ UNCHANGED chunks
                   ELSE IF dm.kind # "ok" THEN MfsFail(dm) /\ UNCHANGED chunks
                   ELSE chunks' = dm.chunks /\ m_pc' = "volume" /\ UNCHANGED m_result
    /\ UNCHANGED << gen2, fnvars, overflow_checks, fptvars, mfs_data, pos, blank_page,
                    n_data_chunks, fat, n_files, file_index, gf, stack, visits >>

\* parse_gen3, lines 639-672: the volume header and the FAT
VolumeHeader ==
    /\ m_pc = "volume"
    /\ IF 0 \notin DOMAIN chunks
       THEN MfsFail(PANIC) /\ UNCHANGED << fat, n_files >>
       ELSE LET c0 == chunks[0].data
                magic == W32(c0[1] + 256 * c0[2], c0[3] + 256 * c0[4])
                files == c0[VOL_FILES_OFFSET + 1] + 256 * c0[VOL_FILES_OFFSET + 2]
                sys_data == SysData(chunks, n_sys_chunks)
                total == files + n_data_chunks
            IN  IF magic # VOL_MAGIC
                THEN /\ MfsFail([kind |-> "err", why |-> "BadVolumeMagic"])
                     /\ UNCHANGED << fat, n_files >>
                ELSE IF VOL_HEADER_SIZE + total * 2 > sys_data.len
                THEN MfsFail(PANIC) /\ UNCHANGED << fat, n_files >>
                ELSE /\ fat' = ReadFat(sys_data, total)
                     /\ n_files' = files
                     /\ m_pc' = "print"
                     /\ UNCHANGED m_result
    /\ UNCHANGED << gen2, fnvars, overflow_checks, fptvars, mfs_data, pos, blank_page,
                    n_data_chunks, data_pages, sys_pages, chunks, n_sys_chunks,
                    file_index, gf, stack, visits >>

\* A call of get_file(file_index) whose result goes to caller
CallGetFile(caller, fi) ==
    /\ gf' = [caller |-> caller, fi |-> fi, i_node |-> 0, data |-> << >>, steps |-> 0,
              ret |-> [kind |-> "none"]]
    /\ m_pc' = "get_file"

\* get_file returns r to its caller
ReturnFile(r) == gf' = [gf EXCEPT !.ret = r] /\ m_pc' = gf.caller

\* print_files, lines 333-336: the loop head, the call of get_file
PrintFiles ==
    /\ m_pc = "print"
    /\ IF file_index < n_files
       THEN CallGetFile("print_ret", file_index)
       ELSE m_pc' = "root" /\ UNCHANGED gf
    /\ UNCHANGED << gen2, fnvars, overflow_checks, fptvars, mfs_data, pos, blank_page,
                    n_data_chunks, data_pages, sys_pages, chunks, n_sys_chunks,
                    fat, n_files, file_index, stack, visits, m_result >>

\* print_files, lines 337-347: the file came back; f.len() - SEC_SIZE is a
\* usize subtraction
PrintFileRet ==
    /\ m_pc = "print_ret"
    /\ IF gf.ret.kind = "ok" /\ Len(gf.ret.data) < SEC_SIZE /\ overflow_checks
       THEN MfsFail(PANIC) /\ UNCHANGED file_index
       ELSE file_index' = file_index + 1 /\ m_pc' = "print" /\ UNCHANGED m_result
    /\ UNCHANGED << gen2, fnvars, overflow_checks, fptvars, mfs_data, pos, blank_page,
                    n_data_chunks, data_pages, sys_pages, chunks, n_sys_chunks,
                    fat, n_files, gf, stack, visits >>

\* get_file, lines 272-283: the inode head
GetFileStart ==
    /\ m_pc = "get_file"
    /\ LET r == GetFileHead(fat, gf.fi) IN
       IF r.kind = "panic" THEN MfsFail(r) /\ UNCHANGED gf
       ELSE IF r.kind = "err" THEN ReturnFile(r) /\ UNCHANGED m_result
       ELSE /\ gf' = [gf EXCEPT !.i_node = r.i_node]
            /\ m_pc' = "loop"
            /\ UNCHANGED m_result
    /\ UNCHANGED << gen2, fnvars, overflow_checks, fptvars, mfs_data, pos, blank_page,
                    n_data_chunks, data_pages, sys_pages, chunks, n_sys_chunks,
                    fat, n_files, file_index, stack, visits >>

\* get_file, lines 284-297: one iteration of the loop
GetFileStep ==
    /\ m_pc = "loop" /\ gf.steps < MaxSteps
    /\ LET r == GetFileIter(chunks, n_sys_chunks, fat, n_files, gf.i_node, gf.data,
                            overflow_checks)
           g == [gf EXCEPT !.steps = @ + 1]
       IN  IF r.kind = "panic" THEN MfsFail(r) /\ gf' = g
           ELSE IF r.kind = "more"
           THEN /\ gf' = [g EXCEPT !.i_node = r.i_node, !.data = r.data]
                /\ UNCHANGED << m_pc, m_result >>
           ELSE /\ gf' = [g EXCEPT !.ret = r]
                /\ m_pc' = gf.caller
                /\ UNCHANGED m_result
    /\ UNCHANGED << gen2, fnvars, overflow_checks, fptvars, mfs_data, pos, blank_page,
                    n_data_chunks, data_pages, sys_pages, chunks, n_sys_chunks,
                    fat, n_files, file_index, stack, visits >>

\* parse_gen3, lines 702-728: the root directory
RootDir ==
    /\ m_pc = "root"
    /\ IF ROOT_DIR_INDEX >= fat.len THEN MfsFail(PANIC) /\ UNCHANGED gf
       ELSE IF At(fat, ROOT_DIR_INDEX) # FILE_NONE
       THEN /\ CallGetFile("blob_ret", BitAnd(ROOT_DIR.lo, FILE_INDEX_MASK))
            /\ UNCHANGED m_result
       ELSE /\ m_pc' = "done" /\ m_result' = [kind |-> "ok"] /\ UNCHANGED gf
    /\ UNCHANGED << gen2, fnvars, overflow_checks, fptvars, mfs_data, pos, blank_page,
                    n_data_chunks, data_pages, sys_pages, chunks, n_sys_chunks,
                    fat, n_files, file_index, stack, visits >>

\* walk_dir returns to the get_blob that called it, or to parse_gen3
AfterWalk == IF stack = << >> THEN "walked" ELSE "entries"

\* get_blob, lines 430-455 (and walk_dir, 537-543): the file came back; an
\* error of get_file or of the parse ends this get_blob, and walk_dir
\* prints it
BlobRet ==
    /\ m_pc = "blob_ret"
    /\ IF gf.ret.kind = "err"
       THEN /\ visits' = Append(visits, [fi |-> gf.fi, file |-> << >>, kind |-> "err",
                                      why |-> gf.ret.why, n |-> 0])
            /\ m_pc' = AfterWalk
            /\ UNCHANGED << stack, m_result >>
       ELSE LET r == BlobParse(gf.ret.data, overflow_checks) IN
            IF r.kind = "panic" THEN MfsFail(r) /\ UNCHANGED << stack, visits >>
            ELSE IF r.kind = "err"
            THEN /\ visits' = Append(visits, [fi |-> gf.fi, file |-> gf.ret.data, kind |-> "err",
                                           why |-> r.why, n |-> 0])
                 /\ m_pc' = AfterWalk
                 /\ UNCHANGED << stack, m_result >>
            ELSE /\ visits' = Append(visits, [fi |-> gf.fi, file |-> gf.ret.data, kind |-> "ok",
                                              why |-> "", n |-> Len(r.files)])
                 /\ stack' = Append(stack, [fi |-> gf.fi, files |-> r.files, i |-> 1])
                 /\ m_pc' = "entries"
                 /\ UNCHANGED m_result
    /\ UNCHANGED << gen2, fnvars, overflow_checks, fptvars, mfs_data, pos, blank_page,
                    n_data_chunks, data_pages, sys_pages, chunks, n_sys_chunks,
                    fat, n_files, file_index, gf >>

\* get_blob, lines 486-521: one entry of the second loop, or its end
WalkEntry ==
    /\ m_pc = "entries"
    /\ LET top == stack[Len(stack)]
           rest == SubSeq(stack, 1, Len(stack) - 1)
           next == Append(rest, [top EXCEPT !.i = @ + 1])
       IN  IF top.i > Len(top.files)
           THEN /\ stack' = rest
                /\ m_pc' = IF rest = << >> THEN "walked" ELSE "entries"
                /\ UNCHANGED << gf, m_result >>
           ELSE LET f == top.files[top.i]
                    fi == BitAnd(f.file_no.lo, FILE_INDEX_MASK)
                IN  IF IsDotEntry(f)
                    THEN stack' = next /\ UNCHANGED << m_pc, gf, m_result >>
                    ELSE IF IsUtf8(f.name)
                    THEN IF is_dir(f)
                         THEN /\ Len(stack) < MaxDepth
                              /\ stack' = next
                              /\ CallGetFile("blob_ret", fi)
                              /\ UNCHANGED m_result
                         ELSE stack' = next /\ UNCHANGED << m_pc, gf, m_result >>
                    ELSE IF fi >= fat.len
                         THEN MfsFail(PANIC) /\ UNCHANGED << stack, gf >>
                         ELSE stack' = next /\ UNCHANGED << m_pc, gf, m_result >>
    /\ UNCHANGED << gen2, fnvars, overflow_checks, fptvars, mfs_data, pos, blank_page,
                    n_data_chunks, data_pages, sys_pages, chunks, n_sys_chunks,
                    fat, n_files, file_index, visits >>

\* parse_gen3, line 729: the walk of the root is over
Walked ==
    /\ m_pc = "walked"
    /\ m_pc' = "done"
    /\ m_result' = [kind |-> "ok"]
    /\ UNCHANGED << gen2, fnvars, overflow_checks, fptvars, mfs_data, pos, blank_page,
                    n_data_chunks, data_pages, sys_pages, chunks, n_sys_chunks,
                    fat, n_files, file_index, gf, stack, visits >>

NextMfs ==
    \/ MfsParse
    \/ Gen3Start
    \/ ScanPage
    \/ Assemble
    \/ VolumeHeader
    \/ PrintFiles
    \/ PrintFileRet
    \/ GetFileStart
    \/ GetFileStep
    \/ RootDir
    \/ BlobRet
    \/ WalkEntry
    \/ Walked

SpecMfs == InitMfs /\ [][NextMfs]_vars

\* ------------------------------------------------- claims on mfs::parse

\* The pages of a partition, and which of them are blank
PageOffsets(d) == {k * 8192 : k \in 0..((d.len \div 8192) - 1)}
IsBlankPage(d, p) == Rd32(d, p) # W32(30855, 43605)
BlankPages(d) == {p \in PageOffsets(d) : IsBlankPage(d, p)}

\* C2: every partition that parse_gen3 accepts contains exactly one blank
\* page (a page whose first word is not 0xAA55_7887).
C2_ExactlyOneBlank == m_result.kind = "ok" => Cardinality(BlankPages(mfs_data)) = 1

\* The data pages of a partition by their bytes, and their first_chunk
DataOffsets(d) == {p \in PageOffsets(d) : ~IsBlankPage(d, p) /\ Rd16(d, p + 14) > 0}
FcAt(d, p) == Rd16(d, p + 14)
SmallestFc(d) ==
    CHOOSE n \in {FcAt(d, p) : p \in DataOffsets(d)} : \A q \in DataOffsets(d) : n <= FcAt(d, q)

C3_InSequence ==
    \A k \in 0..(Cardinality(DataOffsets(mfs_data)) - 1) :
        Cardinality({p \in DataOffsets(mfs_data) :
                        FcAt(mfs_data, p) = SmallestFc(mfs_data) + 122 * k}) = 1
C3_SysInRange ==
    \A i \in DOMAIN sys_pages : \A idx \in DOMAIN sys_pages[i].chunks :
        idx < SmallestFc(mfs_data)
C3_NoDuplicate ==
    /\ \A i, j \in DOMAIN data_pages :
          i # j => (DOMAIN data_pages[i].chunks) \cap (DOMAIN data_pages[j].chunks) = {}
    /\ \A i \in DOMAIN sys_pages : \A j \in DOMAIN data_pages :
          (DOMAIN sys_pages[i].chunks) \cap (DOMAIN data_pages[j].chunks) = {}
C3_Merged ==
    /\ pos >= mfs_data.len
    /\ m_pc \notin {"parse", "gen3", "pages", "gen2"}
    /\ DataOffsets(mfs_data) # {}
C3_MergeErrors == {"DataPageOrderingViolation", "SystemChunkOutOfRange", "DuplicateDataChunk"}
C3_Rejected == m_result.kind = "err" /\ m_result.why \in C3_MergeErrors

C4_Terminates ==
    m_pc \in {"loop", "print_ret", "blob_ret"} =>
        /\ gf.steps <= n_files + n_data_chunks
        /\ (gf.ret.kind = "ok" => At(fat, gf.i_node) \in 1..66)

\* CRC-16/CCITT (polynomial 0x1021, initial value 0xffff) bit by bit
C5_Bit(crc) == IF crc >= 32768 THEN BitXor((crc * 2) % 65536, 4129) ELSE crc * 2
C5_Byte(crc, b) ==
    C5_Bit(C5_Bit(C5_Bit(C5_Bit(C5_Bit(C5_Bit(C5_Bit(C5_Bit(BitXor(crc, b * 256)))))))))
RECURSIVE C5_Range(_, _, _, _)
C5_Range(crc, bs, lo, hi) ==
    IF lo > hi THEN crc
    ELSE IF lo = hi THEN C5_Byte(crc, bs[lo])
    ELSE LET mid == (lo + hi) \div 2
             left == C5_Range(crc, bs, lo, mid)
         IN  IF left < 0 THEN left ELSE C5_Range(left, bs, mid + 1, hi)
C5_Crc(bs) == C5_Range(65535, bs, 1, Len(bs))

\* Some used slot of the system page at p, from position from on (the
\* derived index so far being index), holds a chunk whose checksum fails.
\* A used slot is one that is not 0xffff and comes before the end-of-list
\* slot 0x7fff, among the 120 slots that have a chunk.
RECURSIVE C5_BadFrom(_, _, _, _)
C5_BadFrom(d, p, from, index) ==
    LET live == {cp \in from..119 : Rd16(d, p + 18 + 2 * cp) # 65535}
    IN  IF live = {} THEN FALSE
        ELSE LET cp == CHOOSE x \in live : \A y \in live : x <= y
                 slot == Rd16(d, p + 18 + 2 * cp)
                 idx == BitXor(crc_idx(index), slot)
                 at == p + 18 + 2 * 121 + 66 * cp
             IN  /\ slot # 32767
                 /\ \/ C5_Crc(RdBytes(d, at, 64) \o << idx % 256, idx \div 256 >>)
                          # Rd16(d, at + 64)
                    \/ C5_BadFrom(d, p, cp + 1, idx)
C5_Bad(p) == C5_BadFrom(mfs_data, p, 0, 0)

\* C5: every system chunk admitted has a crc16 field equal to CRC-16/CCITT
\* over its 64 payload bytes followed by the two little-endian bytes of its
\* derived index; a system page with a used slot whose chunk fails this
\* check makes the parse fail with ChunkChecksumFailed, and no chunk of
\* that page is reported.  (The system pages are read while m_pc is "pages";
\* later steps only put them in order.)
C5_Checksums ==
    m_pc \in {"pages", "err"} =>
    /\ \A i \in DOMAIN sys_pages : \A idx \in DOMAIN sys_pages[i].chunks :
          LET c == sys_pages[i].chunks[idx]
          IN  C5_Crc(c.data \o << idx % 256, idx \div 256 >>) = c.crc16
    /\ \A p \in PageOffsets(mfs_data) :
          (/\ ~IsBlankPage(mfs_data, p) /\ FcAt(mfs_data, p) = 0 /\ C5_Bad(p)
           /\ (p < pos \/ (p = pos /\ m_pc \notin {"parse", "gen3", "pages"})))
          => /\ p = pos
             /\ m_result = [kind |-> "err", why |-> "ChunkChecksumFailed"]
             /\ \A i \in DOMAIN sys_pages : sys_pages[i].offset # p
    /\ (m_result = [kind |-> "err", why |-> "ChunkChecksumFailed"] => C5_Bad(pos))

\* C5 witness: a system page was admitted with two chunks, after an unused
\* slot was passed over.
C5_Witness ==
    /\ m_result.kind = "ok"
    /\ \E i \in DOMAIN sys_pages :
          /\ Cardinality(DOMAIN sys_pages[i].chunks) = 2
          /\ Rd16(mfs_data, sys_pages[i].offset + 18) = 65535

\* Every system page admitted whose first slot is 0x0000 holds its chunk
\* under the index idx
C6_SlotZero(idx) ==
    \A i \in DOMAIN sys_pages :
        (Rd16(mfs_data, sys_pages[i].offset + 18) = 0) => idx \in DOMAIN sys_pages[i].chunks

\* C6: crcIdx(0) = 0x3FFF: with a single slot of value 0x0000 on a system
\* page, the derived chunk index after that slot is crcIdx(0) XOR 0 = 0x3FFF.
C6_CrcIdxZero == crc_idx(0) = 16383 /\ C6_SlotZero(16383)

\* C6, amended: crcIdx(0) = 0x0B5B, and a single slot of value 0x0000 on a
\* system page derives the chunk index 0x0B5B.
C6_CrcIdxZeroIs0B5B == crc_idx(0) = 2907 /\ C6_SlotZero(2907)

\* C6 witness: a system page with the single slot 0x0000 was admitted with
\* its chunk.
C6_Witness ==
    \E i \in DOMAIN sys_pages :
        /\ Rd16(mfs_data, sys_pages[i].offset + 18) = 0
        /\ Rd16(mfs_data, sys_pages[i].offset + 20) = 65535
        /\ Cardinality(DOMAIN sys_pages[i].chunks) = 1

\* get_file has returned the file gf.fi, whose FAT chain is h0 -> h1 -> 0x20
\* with h0, h1 >= F and > 66
C7_Chain ==
    /\ m_pc \in {"print_ret", "blob_ret"}
    /\ gf.fi < fat.len
    /\ LET h0 == At(fat, gf.fi) IN
          /\ h0 >= n_files /\ h0 > 66 /\ h0 < fat.len
          /\ LET h1 == At(fat, h0) IN
                /\ h1 >= n_files /\ h1 > 66 /\ h1 < fat.len
                /\ At(fat, h1) = 32
C7_Chunk(h) == chunks[h + n_sys_chunks - n_files].data

\* C7: a file whose inode chain is h0 -> h1 -> 0x0020 is reconstructed as
\* exactly 2 * 64 + 32 = 160 bytes, the last 32 bytes being the first 32
\* payload bytes of the second chunk.
C7_ScenarioD ==
    C7_Chain =>
        /\ gf.ret.kind = "ok"
        /\ Len(gf.ret.data) = 160
        /\ SubSeq(gf.ret.data, 129, 160) = SubSeq(C7_Chunk(At(fat, At(fat, gf.fi))), 1, 32)

\* C7, amended: such a file is reconstructed as exactly 64 + 32 = 96 bytes:
\* the 64 payload bytes of the chunk of h0, then the first 32 payload bytes
\* of the chunk of h1.
C7_ScenarioD96 ==
    C7_Chain =>
        /\ gf.ret.kind = "ok"
        /\ Len(gf.ret.data) = 96
        /\ SubSeq(gf.ret.data, 1, 64) = C7_Chunk(At(fat, gf.fi))
        /\ SubSeq(gf.ret.data, 65, 96) = SubSeq(C7_Chunk(At(fat, At(fat, gf.fi))), 1, 32)

\* C7 witness: get_file has returned a file with such a chain.
C7_Witness == C7_Chain /\ gf.ret.kind = "ok" /\ C7_Chunk(At(fat, gf.fi)) # Zeros(64)

\* The security section of a directory file passes check_dir_sec
C8_SecPasses(file) ==
    LET o == Len(file) - 52
        flo == file[o + 33] + 256 * file[o + 34]
        fhi == file[o + 35] + 256 * file[o + 36]
        enc == (flo \div 4) % 2
    IN  /\ fhi \div 16 = 2 * enc
        /\ (flo % 4 = 0 /\ enc = 0) => \A k \in 1..16 : file[o + 36 + k] = 0

\* C8: a directory file of size exactly 52 + 24*k is parsed into k entries,
\* and one of size 52 + 24*k + r with 1 <= r < 24 fails with
\* MalformedDirectory without any entry being processed.
C8_DirectorySize ==
    \A i \in DOMAIN visits :
        LET v == visits[i]
            size == Len(v.file)
        IN  size >= 52 =>
              /\ ((size - 52) % 24 = 0 => v.kind = "ok" /\ v.n = (size - 52) \div 24)
              /\ ((size - 52) % 24 # 0 =>
                    v.kind = "err" /\ v.why = "MalformedDirectory" /\ v.n = 0)

\* C8, amended: a directory file of size exactly 52 + 24*k is parsed into k
\* entries when its security section passes check_dir_sec, and fails with
\* BadDirectoryFlags or BadNonce, no entry parsed, when it does not; one of
\* size 52 + 24*k + r with 1 <= r < 24 fails with MalformedDirectory without
\* any entry being processed.
C8_DirectorySizeAndSec ==
    \A i \in DOMAIN visits :
        LET v == visits[i]
            size == Len(v.file)
        IN  size >= 52 =>
              /\ ((size - 52) % 24 = 0 /\ C8_SecPasses(v.file) =>
                    v.kind = "ok" /\ v.n = (size - 52) \div 24)
              /\ ((size - 52) % 24 = 0 /\ ~C8_SecPasses(v.file) =>
                    /\ v.kind = "err" /\ v.n = 0
                    /\ v.why \in {"BadDirectoryFlags", "BadNonce"})
              /\ ((size - 52) % 24 # 0 =>
                    v.kind = "err" /\ v.why = "MalformedDirectory" /\ v.n = 0)

\* C8 witness: a directory of 52 + 24 * 2 bytes was parsed into 2 entries,
\* and one of its entries led to a second directory.
C8_Witness ==
    /\ Len(visits) >= 2
    /\ Len(visits[1].file) = 52 + 24 * 2
    /\ visits[1].kind = "ok" /\ visits[1].n = 2

\* The used slot positions of the system page at p, in slot order: those
\* before the first 0x7FFF slot whose slot is not 0xFFFF
C18_Used(p) ==
    LET last == {cp \in 0..120 : Rd16(mfs_data, p + 18 + 2 * cp) = 32767}
        end == IF last = {} THEN 121 ELSE CHOOSE x \in last : \A y \in last : x <= y
    IN  SetToSeq({cp \in 0..(end - 1) : Rd16(mfs_data, p + 18 + 2 * cp) # 65535})

\* The index derived after the first j used slots: 0, then crcIdx(idx) XOR slot
RECURSIVE C18_Index(_, _)
C18_Index(p, j) ==
    IF j = 0 THEN 0
    ELSE BitXor(crc_idx(C18_Index(p, j - 1)), Rd16(mfs_data, p + 18 + 2 * C18_Used(p)[j]))

\* The chunk stored with slot position cp of the page at p
C18_ChunkAt(p, cp) ==
    [data |-> RdBytes(mfs_data, p + 18 + 2 * 121 + 66 * cp, 64),
     crc16 |-> Rd16(mfs_data, p + 18 + 2 * 121 + 66 * cp + 64)]

\* C18: within one system page the derived index starts at 0 and advances
\* to crcIdx(idx) XOR slot once per used slot, in slot order; a free slot
\* (0xFFFF) leaves it unchanged and gives no chunk; the first 0x7FFF slot ends
\* the page; when two used slots derive the same index the page reports the
\* chunk of the later slot.
C18_DerivedIndices ==
    m_pc = "pages" =>
    \A k \in DOMAIN sys_pages :
        LET p == sys_pages[k].offset
            n == Len(C18_Used(p))
        IN  /\ DOMAIN sys_pages[k].chunks = {C18_Index(p, j) : j \in 1..n}
            /\ \A j \in 1..n :
                  (\A j2 \in (j + 1)..n : C18_Index(p, j2) # C18_Index(p, j))
                    => sys_pages[k].chunks[C18_Index(p, j)] = C18_ChunkAt(p, C18_Used(p)[j])

\* C18 witness: a system page was admitted in which two used slots derive
\* the same index for different chunks, and the page holds the chunk of the
\* later slot.
C18_Witness ==
    /\ m_pc = "pages"
    /\ \E k \in DOMAIN sys_pages :
          LET p == sys_pages[k].offset IN
          \E j1, j2 \in 1..Len(C18_Used(p)) :
              /\ j1 < j2 /\ C18_Index(p, j1) = C18_Index(p, j2)
              /\ C18_ChunkAt(p, C18_Used(p)[j1]) # C18_ChunkAt(p, C18_Used(p)[j2])
              /\ sys_pages[k].chunks[C18_Index(p, j2)] = C18_ChunkAt(p, C18_Used(p)[j2])

\* The system pages that supply chunk x, and the USN of a system page as
\* the partition stores it
C19_Suppliers(x) == {k \in DOMAIN sys_pages : x \in DOMAIN sys_pages[k].chunks}
C19_Usn(k) == Val(Rd32(mfs_data, sys_pages[k].offset + 4))

\* C19: system pages are replayed in ascending USN order whatever their
\* physical order: the merged chunk map holds every chunk index a system
\* page supplies, with the payload of a page of the greatest USN among the
\* pages supplying it.
C19_GreatestUsnWins ==
    m_pc = "volume" =>
        \A x \in UNION {DOMAIN sys_pages[k].chunks : k \in DOMAIN sys_pages} :
            /\ x \in DOMAIN chunks
            /\ \E k \in C19_Suppliers(x) :
                  /\ chunks[x] = sys_pages[k].chunks[x]
                  /\ \A k2 \in C19_Suppliers(x) : C19_Usn(k2) <= C19_Usn(k)

\* C19 witness: two system pages supply chunk 0 with different payloads, the
\* page of the greater USN lies first in the partition, and the merged map
\* holds its payload.
C19_Witness ==
    /\ m_pc = "volume"
    /\ \E k1, k2 \in C19_Suppliers(0) :
          /\ sys_pages[k1].offset < sys_pages[k2].offset
          /\ C19_Usn(k1) > C19_Usn(k2)
          /\ sys_pages[k1].chunks[0] # sys_pages[k2].chunks[0]
          /\ chunks[0] = sys_pages[k1].chunks[0]

\* Byte b of the system area: the payload byte of the system chunk that
\* covers it if that chunk is present, 0 otherwise
C20_SysByte(b) ==
    IF (b \div 64) \in DOMAIN chunks /\ (b \div 64) < n_sys_chunks
    THEN chunks[b \div 64].data[(b % 64) + 1] ELSE 0
\* The first 32-bit word of chunk 0 is 0x724F_6201
C20_MagicOk ==
    /\ chunks[0].data[1] = 1 /\ chunks[0].data[2] = 98
    /\ chunks[0].data[3] = 79 /\ chunks[0].data[4] = 114
\* The number of data chunks: 122 per page that is neither a system page by
\* the geometry (one page in 12) nor the blank page
C20_DataChunks ==
    LET n_pages == mfs_data.len \div 8192 IN (n_pages - (n_pages \div 12) - 1) * 122

\* C20: with chunk 0 merged, the parse fails with BadVolumeMagic exactly when
\* the first 32-bit word of chunk 0 is not 0x724F_6201; otherwise the system
\* area holds each present system chunk's payload at index * 64 and zeros
\* elsewhere, F is the file count read from chunk 0, and FAT[i] for
\* 0 <= i < F + N_data_chunks is the little-endian 16-bit value at bytes
\* 14 + 2i of the system area.
C20_VolumeHeaderAndFat ==
    /\ (m_result = [kind |-> "err", why |-> "BadVolumeMagic"]
          => 0 \in DOMAIN chunks /\ ~C20_MagicOk)
    /\ (m_pc \in {"print", "err"} /\ 0 \in DOMAIN chunks /\ ~C20_MagicOk
          => m_result = [kind |-> "err", why |-> "BadVolumeMagic"])
    /\ (m_pc = "print" =>
          /\ C20_MagicOk
          /\ n_files = chunks[0].data[13] + 256 * chunks[0].data[14]
          /\ fat.len = n_files + C20_DataChunks
          /\ \A i \in 0..(fat.len - 1) :
                At(fat, i) = C20_SysByte(14 + 2 * i) + 256 * C20_SysByte(15 + 2 * i))

\* C20 witness: the header was accepted with F files, the FAT has an entry
\* for a file, and a system chunk below n_sys_chunks is absent, so that part
\* of the FAT is read from zeros.
C20_Witness ==
    /\ m_pc = "print" /\ n_files = F
    /\ \E i \in 0..(n_files - 1) : At(fat, i) # 0
    /\ \E x \in 0..(n_sys_chunks - 1) : x \notin DOMAIN chunks /\ 64 * x < 14 + 2 * fat.len

\* get_file(gf.fi) has returned to its caller
C21_Returned == m_pc \in {"print_ret", "blob_ret"} /\ gf.fi < fat.len

\* The key of the chunk with index h + N_sys - F in the chunk map, whose
\* keys are u16: data chunk j of the volume, stored with index N_sys + j, is
\* under the key (N_sys + j) mod 2^16
C21_Key(h) == (h + n_sys_chunks - n_files) % 65536

\* The bytes of a file of k chunks whose chain starts at h, each chunk being
\* the one with index h + N_sys - F
RECURSIVE C21_Expected(_, _)
C21_Expected(h, k) ==
    IF k = 0 \/ C21_Key(h) \notin DOMAIN chunks THEN << >>
    ELSE LET c == chunks[C21_Key(h)].data IN
         IF k = 1 THEN SubSeq(c, 1, At(fat, h))
         ELSE c \o C21_Expected(At(fat, h), k - 1)

\* C21: get_file(fi) returns NoFile when FAT[fi] is 0x0000 and EmptyFile
\* when it is 0xFFFF, both before any chunk is read; it returns
\* InodeOutOfRange when the head or a link it is about to follow is below F;
\* an error carries no file data; and a file that is returned is made of the
\* chunks with index h + N_sys - F of the links h of its chain.
C21_GetFileContract ==
    C21_Returned =>
        LET h == At(fat, gf.fi) IN
        /\ gf.ret.kind \in {"ok", "err"}
        /\ (h = FILE_NONE =>
              gf.ret = [kind |-> "err", why |-> "NoFile"] /\ gf.steps = 0)
        /\ (h = FILE_EMPTY =>
              gf.ret = [kind |-> "err", why |-> "EmptyFile"] /\ gf.steps = 0)
        /\ (is_inode_active(h) =>
              /\ (gf.i_node < n_files <=>
                    gf.ret = [kind |-> "err", why |-> "InodeOutOfRange"])
              /\ (gf.ret.kind = "err" => gf.ret.why = "InodeOutOfRange")
              /\ (gf.ret.kind = "ok" =>
                    gf.ret = [kind |-> "ok", data |-> C21_Expected(h, gf.steps)]))

\* C21 witness: get_file read the chunk of the head, found the link 0x0000
\* in the FAT and returned InodeOutOfRange, the 64 bytes it had collected
\* being no part of the result.
C21_Witness ==
    /\ C21_Returned
    /\ gf.ret = [kind |-> "err", why |-> "InodeOutOfRange"]
    /\ gf.steps = 2 /\ Len(gf.data) = 64
    /\ At(fat, At(fat, gf.fi)) = 0

\* The entry get_blob's second loop is about to handle
C22_AtEntry == m_pc = "entries" /\ stack[Len(stack)].i <= Len(stack[Len(stack)].files)
C22_Entry == stack[Len(stack)].files[stack[Len(stack)].i]

\* The entry's name, its 12 bytes without the NUL padding, is "." or ".."
C22_IsDotOrDotDot(e) ==
    \/ e.name = << 46 >> \o Zeros(11)
    \/ e.name = << 46, 46 >> \o Zeros(10)

C22_SkipsByTwoBytes ==
    [][C22_AtEntry =>
        IF ~IsDotEntry(C22_Entry) /\ IsUtf8(C22_Entry.name) /\ is_dir(C22_Entry)
        THEN m_pc' = "get_file" /\ gf'.fi = BitAnd(C22_Entry.file_no.lo, FILE_INDEX_MASK)
        ELSE m_pc' # "get_file"]_vars

\* C24: the first invariant violation inside a Gen 3 partition ends its
\* decoding and is its result: once a directory of the walk has failed
\* (MalformedDirectory, BadDirectoryFlags, BadNonce or a failure of
\* get_file), no further directory is visited and parse returns that error.
C24_FirstViolationIsResult ==
    \A k \in DOMAIN visits :
        visits[k].kind = "err" =>
            /\ k = Len(visits)
            /\ (m_pc = "done" =>
                  m_result.kind = "err" /\ m_result.why = visits[k].why)

\* C27: the walk of the directories from file 8 terminates on every volume:
\* a directory is not entered again while it is being walked, also when an
\* entry with the directory bit, not named "." or "..", refers to its own
\* directory or to an ancestor, so the visits are bounded by the number of
\* directories.
C27_WalkIsBounded ==
    /\ \A i, j \in DOMAIN stack : i # j => stack[i].fi # stack[j].fi
    /\ (m_pc \in {"get_file", "loop", "blob_ret"} /\ gf.caller = "blob_ret") =>
          \A i \in DOMAIN stack : stack[i].fi # gf.fi

\* The page at p, wholly inside the partition, is a system page
C28_SysPageAt(p) ==
    /\ p + GEN3_PAGE_SIZE <= mfs_data.len
    /\ Rd32(mfs_data, p) = GEN3_PAGE_MAGIC
    /\ Rd16(mfs_data, p + PAGE_FIRST_CHUNK_OFFSET) = 0

\* C28: on a system page a chunk is read only for the slot positions
\* 0..119, position 120 being only the end-of-list marker: whatever the
\* slots hold, the parse of a system page reads no chunk at page offset
\* 18 + 242 + 120 * 66 or past the page, and so never fails on one; the 122
\* chunks of a data page end exactly at the page boundary.
C28_ChunksInsidePage ==
    /\ DATA_CHUNKS_OFFSET + DATA_PAGE_CHUNKS * CHUNK_SIZE = GEN3_PAGE_SIZE
    /\ SYS_CHUNKS_OFFSET + SYS_PAGE_CHUNKS * CHUNK_SIZE <= GEN3_PAGE_SIZE
    /\ ~(m_pc = "panic" /\ C28_SysPageAt(pos))

\* parse_gen3 is about to: sort the pages of a partition without a data
\* page; look up chunk 0 that no page supplies; read a FAT that extends
\* past the system area; look up the root directory in a FAT of fewer than
\* 9 entries; read a file whose index, or follow a link that, is outside
\* the FAT; read a data chunk that is not in the chunk map
C29_NoDataPage == m_pc = "pages" /\ pos >= mfs_data.len /\ data_pages = << >>
C29_Case ==
    \/ C29_NoDataPage
    \/ m_pc = "volume" /\ 0 \notin DOMAIN chunks
    \/ /\ m_pc = "volume" /\ 0 \in DOMAIN chunks
       /\ VOL_HEADER_SIZE + 2 * (chunks[0].data[VOL_FILES_OFFSET + 1]
                                 + 256 * chunks[0].data[VOL_FILES_OFFSET + 2]
                                 + n_data_chunks) > n_sys_chunks * CHUNK_DATA_SIZE
    \/ m_pc = "root" /\ fat.len <= ROOT_DIR_INDEX
    \/ m_pc = "get_file" /\ gf.fi >= fat.len
    \/ /\ m_pc = "loop" /\ gf.i_node >= n_files
       /\ (gf.i_node >= fat.len \/ C21_Key(gf.i_node) \notin DOMAIN chunks)

\* C29: in each of these cases parse_gen3 goes on to an error value and
\* makes no access out of range.
C29_FailsWithValue ==
    [][C29_Case =>
        /\ m_pc' # "panic"
        /\ (C29_NoDataPage => m_result' = [kind |-> "err", why |-> "NoDataPages"])]_vars

\* ------------------------------------------------------- MFS: Gen 2

GEN2_PAGE_SIZE == 16384
GEN2_PAGE_HEADER_SIZE == 20
GEN2_SMTH_SIZE == 11
PAGE_HEADER_LENGTH == 144
INDICES_SIZE == 64
CHUNK_OFFSET == PAGE_HEADER_LENGTH + INDICES_SIZE

\* The length of a chunk without the rounding to 16 bytes
Gen2ChunkSize_RoundSmall(flags, size) ==
    IF flags # 176
    THEN LET sm == size % 16 IN IF sm = 0 THEN size ELSE size + 16 - sm
    ELSE size * 256
Gen2ChunkSize_Unaligned(flags, size) ==
    IF size > 2 /\ flags # 176 THEN size ELSE size * 256

\* ChunkHeader::size() of mfs/gen2.rs, and the same expression in parse_gen2
\* of mfs.rs (lines 903-914): the length of the chunk of a header
Gen2ChunkSize(flags, size) ==
    IF size > 2 /\ flags # 176
    THEN LET sm == size % 16 IN IF sm = 0 THEN size ELSE size + 16 - sm
    ELSE size * 256

\* The Gen 2 partitions.  A page is its header (page number, 0x78, flags,
\* 0xff; the magic at 8) and what is written into it; the bytes not
\* written are those of the fill, which as a chunk header (0xb0, 0xb0) ends
\* the walk of a page, as (0xff, 0xff) is an unused slot and as a log record
\* of zeros is no sentinel.
Gen2Partitions ==
    LET Pg(o, num, magic) == << [o |-> o, bs |-> << num, 120, 252, 255 >>],
                                [o |-> o + 8, bs |-> magic] >>
        Hd(o, f, s) == << [o |-> o, bs |-> << f, s >>] >>
        Mfs == << 77, 70, 83, 0 >>
        NoMagic == << 255, 255, 255, 255 >>
        Rec(k) == << 252, 112, k, 1, 0, 2, 0, 3, 0, 4, 0 >>
        Log(o, ks) == << [o |-> o + GEN2_PAGE_HEADER_SIZE,
                          bs |-> Flatten([j \in DOMAIN ks |-> Rec(ks[j])]) \o << 255, 255 >>] >>
    IN  \* one active page with one header at 0xd0
        { PutAll(Bytes(GEN2_PAGE_SIZE, 176), Pg(0, 1, NoMagic) \o Hd(CHUNK_OFFSET, f, s)) :
            f \in {255, 176, 128, 0}, s \in {0, 1, 2, 3, 15, 16, 17, 255} }
        \* an active page of unused slots, dead chunks and chunks, stored
        \* before page 0 with a log of two records
        \cup { PutAll(Bytes(2 * GEN2_PAGE_SIZE, 176),
                      Pg(0, 2, NoMagic) \o Hd(208, 128, 48) \o Hd(256, 255, 7) \o Hd(272, 128, 0)
                      \o Hd(288, 128, 33) \o Hd(336, 176, 1) \o Hd(592, 128, 2)
                      \o Pg(GEN2_PAGE_SIZE, 0, Mfs) \o Log(GEN2_PAGE_SIZE, << 5, 6 >>)) }
        \* two pages with the number 0 and different logs
        \cup { PutAll(Bytes(2 * GEN2_PAGE_SIZE, 176),
                      Pg(0, 0, Mfs) \o Log(0, << 7 >>)
                      \o Pg(GEN2_PAGE_SIZE, 0, Mfs) \o Log(GEN2_PAGE_SIZE, << 8, 9 >>)) }
        \* page 0 alone, its log without a sentinel
        \cup { PutAll(Bytes(GEN2_PAGE_SIZE, 0), Pg(0, 0, Mfs)) }
        \* an unused page; an active page of unused slots
        \cup { Bytes(GEN2_PAGE_SIZE, 255),
               PutAll(Bytes(GEN2_PAGE_SIZE, 255), Pg(0, 1, NoMagic)) }
        \* sizes that are no multiple of the page size, and no page at all
        \cup { PutAll(Bytes(GEN2_PAGE_SIZE + 16, 176), Pg(0, 1, NoMagic)),
               Bytes(16, 255), Bytes(0, 0) }

\* parse of mfs/gen2.rs is called by the gen2mfs binary on any file, with
\* or without --verbose; parse_gen2 is called by mfs::parse on a partition
\* that passed its heuristic
InitGen2 ==
    /\ overflow_checks \in BOOLEAN
    /\ IdleFpt
    /\ MfsIdle
    /\ FnIdle
    /\ mfs_data \in Gen2Partitions
    /\ \E fn \in {"mfs::parse_gen2", "mfs::gen2::parse"}, verbose \in BOOLEAN :
          /\ fn = "mfs::parse_gen2" =>
                ~verbose /\ mfs_data.len >= 4 /\ IsGen2Magic(Rd32(mfs_data, 0))
          /\ gen2 = [fn |-> fn, verbose |-> verbose, pc |-> "start", offset |-> 0,
                     pos |-> 0, dead |-> FALSE, chunks |-> << >>, pages |-> << >>,
                     log |-> << >>, i |-> 0, result |-> [kind |-> "none"]]

\* mfs/gen2.rs 227-233: the size must be a multiple of the page size;
\* parse_gen2 (mfs.rs 872-877) has no such test
Gen2Start ==
    /\ gen2.pc = "start"
    /\ gen2' = IF gen2.fn = "mfs::gen2::parse" /\ mfs_data.len % GEN2_PAGE_SIZE # 0
               THEN [gen2 EXCEPT !.pc = "err",
                                 !.result = [kind |-> "err", why |-> "SizeNotMultipleOfPageSize"]]
               ELSE [gen2 EXCEPT !.pc = "page"]
    /\ UNCHANGED << overflow_checks, fptvars, mfsvars, fnvars >>

\* The page loop, mfs/gen2.rs 238-252 and 307-315 (mfs.rs 879-890 and
\* 940-947): the slice of the page, its header; a page that is not active is
\* pushed without chunks
Gen2Page ==
    /\ gen2.pc = "page"
    /\ gen2' =
         IF gen2.offset >= mfs_data.len THEN [gen2 EXCEPT !.pc = "sort"]
         ELSE IF gen2.offset + GEN2_PAGE_SIZE > mfs_data.len
         THEN [gen2 EXCEPT !.pc = "panic", !.result = PANIC]
         ELSE LET n == Rd8(mfs_data, gen2.offset) IN
              IF n > 0 /\ n # 255
              THEN [gen2 EXCEPT !.pc = "walk", !.pos = CHUNK_OFFSET, !.dead = FALSE,
                                !.chunks = << >>]
              ELSE [gen2 EXCEPT !.pages = Append(@, [num |-> n, offset |-> gen2.offset,
                                                     chunks |-> << >>]),
                                !.offset = @ + GEN2_PAGE_SIZE]
    /\ UNCHANGED << overflow_checks, fptvars, mfsvars, fnvars >>

\* One iteration of the chunk loop, mfs/gen2.rs 255-302 (mfs.rs 892-937):
\* the end of the page, an unused slot, or a chunk.  mfs/gen2.rs records
\* the offset from CHUNK_OFFSET and whether an unused slot came before;
\* the 8 bytes after a 0xb0 header are read by parse_gen2 and, if verbose,
\* by mfs/gen2.rs.
Gen2Walk ==
    /\ gen2.pc = "walk"
    /\ LET o == gen2.offset + gen2.pos
           two == gen2.fn = "mfs::gen2::parse"
       IN  gen2' =
             IF gen2.pos >= GEN2_PAGE_SIZE
             THEN [gen2 EXCEPT !.pc = "page",
                               !.pages = Append(@, [num |-> Rd8(mfs_data, gen2.offset),
                                                    offset |-> gen2.offset,
                                                    chunks |-> gen2.chunks]),
                               !.offset = @ + GEN2_PAGE_SIZE]
             ELSE IF o + 2 > mfs_data.len THEN [gen2 EXCEPT !.pc = "panic", !.result = PANIC]
             ELSE LET flags == Rd8(mfs_data, o)
                      size == Rd8(mfs_data, o + 1)
                  IN  IF flags = 255 \/ size = 0
                      THEN [gen2 EXCEPT !.pos = @ + 16, !.dead = two]
                      ELSE IF flags = 176 /\ (~two \/ gen2.verbose) /\ o + 10 > mfs_data.len
                      THEN [gen2 EXCEPT !.pc = "panic", !.result = PANIC]
                      ELSE [gen2 EXCEPT
                              !.chunks = Append(@, [flags |-> flags, size |-> size,
                                                    offset |-> IF two THEN gen2.pos - CHUNK_OFFSET
                                                               ELSE gen2.pos,
                                                    live |-> ~gen2.dead]),
                              !.pos = @ + Gen2ChunkSize(flags, size)]
    /\ UNCHANGED << overflow_checks, fptvars, mfsvars, fnvars >>

\* After the page loop, mfs/gen2.rs 317-328 (mfs.rs 949-1003): the stable
\* sort by page number; in parse_gen2 the Indices of every active page;
\* the magic of the first page.  Without it mfs/gen2.rs fails and parse_gen2
\* prints a line and succeeds.
Gen2Sort ==
    /\ gen2.pc = "sort"
    /\ LET s == SortPairs([k \in DOMAIN gen2.pages |->
                              [key |-> W32(gen2.pages[k].num, 0), val |-> gen2.pages[k]]])
           sorted == [k \in DOMAIN s |-> s[k].val]
           two == gen2.fn = "mfs::gen2::parse"
       IN  gen2' =
             IF ~two /\ \E k \in DOMAIN sorted :
                          /\ sorted[k].num \notin {0, 255}
                          /\ sorted[k].offset + PAGE_HEADER_LENGTH + INDICES_SIZE > mfs_data.len
             THEN [gen2 EXCEPT !.pc = "panic", !.result = PANIC]
             ELSE IF sorted = << >>
             THEN [gen2 EXCEPT !.pc = "done", !.result = [kind |-> "ok"]]
             ELSE IF RdBytes(mfs_data, sorted[1].offset + 8, 4) # << 77, 70, 83, 0 >>
             THEN IF two
                  THEN [gen2 EXCEPT !.pc = "err", !.pages = sorted,
                                    !.result = [kind |-> "err", why |-> "NoMagic"]]
                  ELSE [gen2 EXCEPT !.pc = "done", !.pages = sorted,
                                    !.result = [kind |-> "ok"]]
             ELSE [gen2 EXCEPT !.pc = "log", !.pages = sorted, !.i = 0]
    /\ UNCHANGED << overflow_checks, fptvars, mfsvars, fnvars >>

\* One iteration of the log loop, mfs/gen2.rs 329-338 (mfs.rs 1004-1013):
\* read_from_prefix(&data[pos..]).unwrap() of an 11-byte record, the
\* sentinel 0xffff.  What follows the loop (printing; in mfs/gen2.rs the
\* Indices and first bytes of chunks inside whole pages) cannot fail.
Gen2Log ==
    /\ gen2.pc = "log"
    /\ LET p == gen2.pages[1].offset + GEN2_PAGE_HEADER_SIZE + gen2.i * GEN2_SMTH_SIZE IN
       gen2' =
         IF p + GEN2_SMTH_SIZE > mfs_data.len
         THEN [gen2 EXCEPT !.pc = "panic", !.result = PANIC]
         ELSE LET smth == RdBytes(mfs_data, p, GEN2_SMTH_SIZE) IN
              IF smth[1] + 256 * smth[2] = 65535
              THEN [gen2 EXCEPT !.pc = "done", !.result = [kind |-> "ok"]]
              ELSE [gen2 EXCEPT !.log = Append(@, smth), !.i = @ + 1]
    /\ UNCHANGED << overflow_checks, fptvars, mfsvars, fnvars >>

NextGen2 == Gen2Start \/ Gen2Page \/ Gen2Walk \/ Gen2Sort \/ Gen2Log

SpecGen2 == InitGen2 /\ [][NextGen2]_vars

\* The parser runs to its end: no step of it is put off for ever
FairGen2 == SpecGen2 /\ WF_vars(NextGen2)

\* ------------------------------------------- claims on the Gen 2 parsers

\* The chunk loop is about to read the header at gen2.pos
C25_AtHeader == gen2.pc = "walk" /\ gen2.pos < GEN2_PAGE_SIZE
C25_Flags == Rd8(mfs_data, gen2.offset + gen2.pos)
C25_Size == Rd8(mfs_data, gen2.offset + gen2.pos + 1)

\* C25: a step of the Gen 2 chunk walk, for every header (flags, size):
\* with flags 0xff or size 0 it skips 16 bytes and records no chunk;
\* otherwise it records a chunk and advances by size * 256 if flags is 0xb0
\* and by size rounded up to a multiple of 16 in every other case, the
\* sizes 1 and 2 included, which advance by 16.
C25_WalkStep ==
    [][C25_AtHeader =>
        IF C25_Flags = 255 \/ C25_Size = 0
        THEN gen2'.pos = gen2.pos + 16 /\ gen2'.chunks = gen2.chunks
        ELSE gen2'.pos = gen2.pos + (IF C25_Flags = 176 THEN C25_Size * 256
                                     ELSE 16 * ((C25_Size + 15) \div 16))]_vars

\* C25, as the walk does it: with flags 0xff or size 0 it skips 16 bytes
\* and records no chunk; otherwise it records one chunk and advances by
\* size * 256 if flags is 0xb0 or size is 1 or 2, and by size rounded up to
\* a multiple of 16 in every other case.
C25_WalkStepOfTheCode ==
    [][C25_AtHeader =>
        IF C25_Flags = 255 \/ C25_Size = 0
        THEN gen2'.pos = gen2.pos + 16 /\ gen2'.chunks = gen2.chunks
        ELSE /\ Len(gen2'.chunks) = Len(gen2.chunks) + 1
             /\ gen2'.pos = gen2.pos + (IF C25_Flags = 176 \/ C25_Size <= 2
                                        THEN C25_Size * 256
                                        ELSE 16 * ((C25_Size + 15) \div 16))]_vars

\* The walk has just recorded a chunk of size 1 or 2 whose flags are not
\* 0xb0, and stands size * 256 bytes after its header
C25_Witness ==
    /\ gen2.pc = "walk"
    /\ Len(gen2.chunks) >= 1
    /\ LET c == gen2.chunks[Len(gen2.chunks)]
           at == IF gen2.fn = "mfs::gen2::parse" THEN c.offset + CHUNK_OFFSET ELSE c.offset
       IN  /\ c.size \in {1, 2}
           /\ c.flags \notin {176, 255}
           /\ Rd8(mfs_data, gen2.offset + at + 1) = c.size
           /\ gen2.pos = at + c.size * 256

\* The page whose log is read: of the partition's pages, the one with the
\* least number, and of those the first
C26_P0 ==
    CHOOSE o \in {k * GEN2_PAGE_SIZE : k \in 0..(mfs_data.len \div GEN2_PAGE_SIZE - 1)} :
        \A q \in {k * GEN2_PAGE_SIZE : k \in 0..(mfs_data.len \div GEN2_PAGE_SIZE - 1)} :
            \/ Rd8(mfs_data, o) < Rd8(mfs_data, q)
            \/ Rd8(mfs_data, o) = Rd8(mfs_data, q) /\ o <= q

\* The 16-bit kind of the k-th record after the header of that page
C26_Kind(k) ==
    Rd16(mfs_data, C26_P0 + GEN2_PAGE_HEADER_SIZE + k * GEN2_SMTH_SIZE)

\* C26: the log reported is the sequence of the 11-byte records that
\* follow the 20-byte header of page 0 and precede the first record of kind
\* 0xffff, in order; the scan always terminates, and without such a record
\* before the end of the data it ends with an error value, not with a read
\* past the end.
C26_LogScan ==
    [][gen2.pc = "log" =>
        /\ gen2'.pc \in {"log", "done", "err"}
        /\ gen2'.pc = "log" => gen2'.i = gen2.i + 1
        /\ gen2'.pc = "done" =>
              /\ C26_Kind(gen2.i) = 65535
              /\ \A k \in 0..(gen2.i - 1) : C26_Kind(k) # 65535
              /\ gen2'.log = [k \in 1..gen2.i |->
                                RdBytes(mfs_data, C26_P0 + GEN2_PAGE_HEADER_SIZE
                                                  + (k - 1) * GEN2_SMTH_SIZE, GEN2_SMTH_SIZE)]]_vars

\* The same without the clause on the missing sentinel: a scan that ends
\* reports the records before the first sentinel.
C26_LogOfTheCode ==
    [][gen2.pc = "log" /\ gen2'.pc # "panic" =>
        /\ gen2'.pc \in {"log", "done"}
        /\ gen2'.pc = "log" => gen2'.i = gen2.i + 1
        /\ gen2'.pc = "done" =>
              /\ C26_Kind(gen2.i) = 65535
              /\ \A k \in 0..(gen2.i - 1) : C26_Kind(k) # 65535
              /\ gen2'.log = [k \in 1..gen2.i |->
                                RdBytes(mfs_data, C26_P0 + GEN2_PAGE_HEADER_SIZE
                                                  + (k - 1) * GEN2_SMTH_SIZE, GEN2_SMTH_SIZE)]]_vars

\* The parser of mfs/gen2.rs is at work
C30_Gen2Rs == gen2.fn = "mfs::gen2::parse"

\* One step of mfs/gen2.rs, for the walk of a page: a partition that is
\* not a whole number of pages is refused before a page is read; the walk
\* of an active page starts at 0xd0; its position is a multiple of 16;
\* before the page end a step reads the header inside the page and moves on
\* by 16 or more; at or after the page end the walk is left.
C30_Step ==
    /\ gen2.pc = "start" /\ mfs_data.len % GEN2_PAGE_SIZE # 0 =>
          /\ gen2'.pc = "err"
          /\ gen2'.pages = << >> /\ gen2'.offset = 0
    /\ gen2.pc = "start" /\ mfs_data.len % GEN2_PAGE_SIZE = 0 => gen2'.pc = "page"
    /\ gen2.pc = "page" /\ gen2.offset < mfs_data.len =>
          /\ gen2.offset + GEN2_PAGE_SIZE <= mfs_data.len
          /\ IF Rd8(mfs_data, gen2.offset) \in {0, 255}
             THEN gen2'.pc = "page"
             ELSE gen2'.pc = "walk" /\ gen2'.pos = 208 /\ gen2'.offset = gen2.offset
    /\ gen2.pc = "walk" =>
          /\ gen2.pos % 16 = 0
          /\ gen2.pos >= 208
          /\ IF gen2.pos >= GEN2_PAGE_SIZE
             THEN gen2'.pc = "page"
             ELSE /\ gen2.offset + gen2.pos + 2 <= gen2.offset + GEN2_PAGE_SIZE
                  /\ gen2.offset + GEN2_PAGE_SIZE <= mfs_data.len
                  /\ gen2'.pc = "walk"
                  /\ gen2'.offset = gen2.offset
                  /\ gen2'.pos >= gen2.pos + 16

\* C30: in mfs::gen2::parse, for a partition whose size is a multiple of
\* 16 KiB, the chunk walk of every page numbered other than 0x00 and 0xff
\* terminates: the position starts at 0xd0, stays a multiple of 16, grows
\* by at least 16 at every iteration, every chunk header is read from
\* inside its own page, and the walk stops as soon as the position reaches
\* or passes the page end; a partition whose size is not a multiple of
\* 16 KiB is rejected with an error before any page is read.
C30_WalkTerminates ==
    /\ [][C30_Gen2Rs => C30_Step]_vars
    /\ (C30_Gen2Rs /\ gen2.pc = "walk") ~> (gen2.pc = "page")

\* The walk of mfs::gen2::parse has gone over a page: it has met unused
\* slots and chunks and now stands at or after the page end
C30_Witness ==
    /\ C30_Gen2Rs
    /\ mfs_data.len % GEN2_PAGE_SIZE = 0
    /\ gen2.pc = "walk"
    /\ gen2.pos >= GEN2_PAGE_SIZE
    /\ gen2.dead
    /\ Len(gen2.chunks) >= 2

\* ------------------------------------- functions applied on their own

\* The calls, a function and its argument.  The names handed to
\* Display::fmt are those of get_part_info's table, MDMV, names outside the
\* table, names ending in NULs and a name that is not UTF-8; the image sizes
\* are the powers of two up to 1 GiB and sizes that are none.
Calls ==
    LET FnNames ==
            { << 70, 84, 80, 82 >>, << 70, 84, 85, 80 >>, << 68, 76, 77, 80 >>, << 80, 83, 86, 78 >>,
              << 73, 86, 66, 80 >>, << 77, 70, 83, 0 >>, << 78, 70, 84, 80 >>, << 82, 79, 77, 66 >>,
              << 87, 67, 79, 68 >>, << 76, 79, 67, 76 >>, << 70, 76, 79, 71 >>, << 85, 84, 79, 75 >>,
              << 73, 83, 72, 67 >>, << 65, 70, 83, 80 >>, << 70, 84, 80, 77 >>, << 71, 76, 85, 84 >>,
              << 69, 70, 70, 83 >>, << 70, 79, 86, 68 >>, << 77, 68, 77, 86 >>, << 88, 88, 88, 88 >>,
              << 102, 116, 112, 114 >>, << 0, 0, 0, 0 >>, << 70, 84, 80, 0 >>, << 77, 70, 83, 88 >>,
              << 77, 70, 83, 32 >>, << 82, 66, 69, 80 >>, << 80, 77, 67, 80 >>, << 70, 84, 0, 0 >>,
              NAME.BAD }
        FnSizes == {2 ^ k : k \in 0..30} \cup {0, 3, 1000, SIZE_8M + 1, SIZE_16M - 1, SIZE_8M + SIZE_8M \div 2}
    IN  {[f |-> "get_part_info", name |-> n] : n \in FnNames}
        \cup {[f |-> "get_mapping", size |-> n] : n \in FnSizes}
        \cup {[f |-> g, byte |-> b] : g \in {"get_type", "is_checksum_valid"}, b \in 0..255}
        \cup {[f |-> "check_dir_sec", sec |-> SecBytes(W32(lo + 8 * m, x + 16 * u), nonce)] :
                 lo \in 0..7, m \in {0, 18, 8191}, x \in {0, 15},
                 u \in {0, 1, 2, 3, 2048, 4095},
                 nonce \in {Zeros(16), << 1 >> \o Zeros(15), Zeros(15) \o << 1 >>,
                            Pattern(16, 0)}}

InitFn ==
    /\ overflow_checks \in BOOLEAN
    /\ IdleFpt
    /\ mfs_data = Bytes(0, 0)
    /\ MfsIdle
    /\ Gen2Idle
    /\ call \in Calls
    /\ ret = [kind |-> "none"]

\* Display::fmt of an FPTEntry up to the part_type it prints
ApplyPartInfo ==
    /\ call.f = "get_part_info" /\ ret.kind = "none"
    /\ LET name == DisplayName(call.name) IN
       ret' = [kind |-> "part", name |-> name, part_type |-> get_part_info(name)]
    /\ UNCHANGED << overflow_checks, fptvars, mfsvars, gen2, call >>

ApplyMapping ==
    /\ call.f = "get_mapping" /\ ret.kind = "none"
    /\ ret' = [kind |-> "mapping", mask |-> get_mapping(call.size)]
    /\ UNCHANGED << overflow_checks, fptvars, mfsvars, gen2, call >>

ApplyGetType ==
    /\ call.f = "get_type" /\ ret.kind = "none"
    /\ ret' = [kind |-> "type", res |-> get_type(call.byte)]
    /\ UNCHANGED << overflow_checks, fptvars, mfsvars, gen2, call >>

ApplyChecksumValid ==
    /\ call.f = "is_checksum_valid" /\ ret.kind = "none"
    /\ ret' = [kind |-> "valid", v |-> is_checksum_valid(call.byte)]
    /\ UNCHANGED << overflow_checks, fptvars, mfsvars, gen2, call >>

\* get_blob, lines 446-447: the BlobSec read from the 52 bytes that end a
\* directory file, and check_dir_sec on it
ApplyCheckDirSec ==
    /\ call.f = "check_dir_sec" /\ ret.kind = "none"
    /\ ret' = [kind |-> "sec",
               res |-> check_dir_sec(W32(call.sec[33] + 256 * call.sec[34],
                                         call.sec[35] + 256 * call.sec[36]),
                                     SubSeq(call.sec, 37, 52))]
    /\ UNCHANGED << overflow_checks, fptvars, mfsvars, gen2, call >>

NextFn ==
    \/ ApplyPartInfo \/ ApplyMapping \/ ApplyGetType \/ ApplyChecksumValid
    \/ ApplyCheckDirSec

SpecFn == InitFn /\ [][NextFn]_vars

\* ------------------------------------------------ claims on the functions

\* The classification table of the partition names
C13_Code ==
    { << 70, 84, 80, 82 >>, << 78, 70, 84, 80 >>, << 68, 76, 77, 80 >>, << 70, 84, 85, 80 >>, << 82, 79, 77, 66 >>,
      << 87, 67, 79, 68 >>, << 76, 79, 67, 76 >>, << 73, 83, 72, 67 >>, << 70, 84, 80, 77 >>, << 77, 68, 77, 86 >> }
C13_Data ==
    { << 80, 83, 86, 78 >>, << 73, 86, 66, 80 >>, << 77, 70, 83 >>, << 70, 76, 79, 71 >>,
      << 85, 84, 79, 75 >>, << 71, 76, 85, 84 >>, << 69, 70, 70, 83 >>, << 70, 79, 86, 68 >> }

\* C13: get_part_info follows the table: FTPR, NFTP, DLMP, FTUP, ROMB, WCOD,
\* LOCL, ISHC, FTPM and MDMV are Code; PSVN, IVBP, MFS, FLOG, UTOK, GLUT, EFFS
\* and FOVD are Data; AFSP and every other name are None.
C13_PartInfoTable ==
    ret.kind = "part" =>
        ret.part_type = (IF ret.name \in C13_Code THEN "Code"
                         ELSE IF ret.name \in C13_Data THEN "Data"
                         ELSE "None")

\* C14: the mapping mask is size - 1 for every size that is a power of two
\* and 0x00FFFFFF for every other size.
C14_MaskIsSizeMinusOne ==
    ret.kind = "mapping" =>
        ret.mask = (IF \E k \in 0..30 : call.size = 2 ^ k THEN call.size - 1
                    ELSE 16777215)

\* C16: the type of a FIT entry is decoded from type_byte & 0x7F, and its
\* checksum is valid exactly when (type_byte & 0x80) # 0; a value outside the
\* enumeration yields an error value.
C16_TypeFromLow7Bits ==
    /\ ret.kind = "type" => ret.res = EntryType_try_from(call.byte % 128)
    /\ ret.kind = "valid" => ret.v = (call.byte >= 128)

\* Bit k (k < 32) of the little-endian u32 at bytes 32..35 of a section
C23_Bit(sec, k) == (sec[33 + k \div 8] \div 2 ^ (k % 8)) % 2

\* (a): bits 20..31 of the flags, as a number, equal encryption << 1
C23_FlagsOk(sec) ==
    /\ C23_Bit(sec, 21) = C23_Bit(sec, 2)
    /\ \A k \in {20} \cup 22..31 : C23_Bit(sec, k) = 0

\* (b): the nonce is all zero when anti-replay and encryption are both zero
C23_NonceOk(sec) ==
    (C23_Bit(sec, 0) = 0 /\ C23_Bit(sec, 1) = 0 /\ C23_Bit(sec, 2) = 0)
        => \A i \in 37..52 : sec[i] = 0

\* C23: check_dir_sec accepts a security section exactly when (a) and (b)
\* hold; it fails with BadDirectoryFlags when (a) is violated and with
\* BadNonce when (b) is; bits 3..19 of the flags never change the result.
C23_DirSecContract ==
    (call.f = "check_dir_sec" /\ ret.kind = "sec") =>
        /\ (ret.res.kind = "ok" <=> C23_FlagsOk(call.sec) /\ C23_NonceOk(call.sec))
        /\ (~C23_FlagsOk(call.sec) =>
               ret.res = [kind |-> "err", why |-> "BadDirectoryFlags"])
        /\ (C23_FlagsOk(call.sec) /\ ~C23_NonceOk(call.sec) =>
               ret.res = [kind |-> "err", why |-> "BadNonce"])
        /\ \A c \in Calls :
              (/\ c.f = "check_dir_sec"
               /\ \A k \in (0..2) \cup (20..31) : C23_Bit(c.sec, k) = C23_Bit(call.sec, k)
               /\ SubSeq(c.sec, 37, 52) = SubSeq(call.sec, 37, 52))
              => check_dir_sec(W32(c.sec[33] + 256 * c.sec[34],
                                   c.sec[35] + 256 * c.sec[36]),
                               SubSeq(c.sec, 37, 52)) = ret.res

\* C23 witness: a section with encryption set, bits 20..31 = 2, bits 3..19
\* all set and a nonce that is not zero was accepted.
C23_Witness ==
    /\ call.f = "check_dir_sec" /\ ret.kind = "sec" /\ ret.res.kind = "ok"
    /\ C23_Bit(call.sec, 2) = 1 /\ C23_Bit(call.sec, 21) = 1
    /\ \A k \in 3..19 : C23_Bit(call.sec, k) = 1
    /\ call.sec[37] # 0

====
